---------------------------- MODULE Spec2Model ----------------------------
(***************************************************************************)
(* ZERO-BOT: the opportunity scanner (ArbitrageScanner), the coordinator   *)
(* (ZeroBot.handleOpportunity) and the two-leg trade executor              *)
(* (TradeExecutor), as one state machine.                                  *)
(*                                                                         *)
(* Units.  Token amounts and wei amounts are counted in units of 10^10 wei *)
(* (so 0.01 ETH = 1000000) and gas in units of 1000 gas, so that every     *)
(* product the code forms stays inside TLC's 32-bit integers.  A gas price *)
(* is the price of 1000 gas in amount units: 1 gwei per gas = 100.  All    *)
(* divisions are the code's bigint divisions (truncating).                 *)
(*                                                                         *)
(* The chain client (ethers) is the environment: every awaited chain call  *)
(* is one step whose outcome (a value, a throw, a receipt) is chosen from  *)
(* a small set.                                                            *)
(***************************************************************************)
EXTENDS Integers, Sequences, FiniteSets, TLC

----------------------------------------------------------------------------
(* Bounds of the model *)

\* opportunities handed to handleOpportunity in one run (caps the counters):
\* the venues stop quoting when a further scan could exceed it
MaxDeliveries == 2

\* getQuoteV3 calls in one run of the price monitor alone
MaxQuoteCalls == 3

----------------------------------------------------------------------------
(* Program constants *)

\* new NodeCache({ stdTTL: 3 }), in seconds
TTL == 3
\* FEE_TIERS
FEE_TIERS == <<100, 500, 3000, 10000>>

\* gasEstimate: 150000n of a quote, in units of 1000 gas
GasEstimate == 150
\* ethers.parseUnits('1', 'gwei') per gas, as the price of 1000 gas
Gwei == 100
\* netProfitPercent < 10, in hundredths of a percent
SanityCeiling == 1000
\* checkBalances: minEthRequired = parseEther('0.01')
MinEthRequired == 1000000
\* validateOpportunity: opportunity.profitPercent > 10, in hundredths of a percent
HighProfitPercent == 1000

DEXES == <<"UNISWAP_V3", "PANCAKESWAP_V3">>

DexDisplayName(dexName) ==
    IF dexName = "PANCAKESWAP_V3" THEN "PancakeSwap V3" ELSE "Uniswap V3"

TRADING_PAIRS ==
    << [tokenA |-> "WETH", tokenB |-> "USDC"],
       [tokenA |-> "WETH", tokenB |-> "BMO"],
       [tokenA |-> "WETH", tokenB |-> "DAI"] >>

\* ArbitrageStatus values the coordinator uses
SCANNING == "SCANNING"
EXECUTING == "EXECUTING"
IDLE == "IDLE"

----------------------------------------------------------------------------
(* Input domains: what the environment may answer *)

\* An optional value (null or undefined in the code) is a sequence of length 0 or 1.
None == <<>>
Some(x) == <<x>>

\* The outcome of an awaited chain read: a value, or a rejected promise.
Ok(v) == [ok |-> TRUE, v |-> v]
Threw == [ok |-> FALSE, v |-> 0]

\* MIN_PROFIT_THRESHOLD (a percentage, parseFloat), in hundredths of a percent
ThresholdValues == {0, 100}
\* TRADE_AMOUNT_ETH as parseUnits gives it (0.01 ETH)
TradeAmounts == {1000000}
\* a setting parseFloat turns into a number ethers.parseUnits rejects (NaN, or
\* more decimals than the unit has)
Unparsable == -1
\* MAX_GAS_PRICE_GWEI
MaxGasPriceGweiValues == {1, Unparsable}

\* the assets B for which some venue has a pool with liquidity (for the other
\* trading pairs every quote is null; a WETH -> USDC quote is always null, as
\* calculateOutputFromSqrtPrice gives 0n when decimalsOut < decimalsIn)
LiquidTokens == {"DAI"}
\* output amounts a forward quote (A -> B) may carry
ForwardOutputs(tokenB) == IF tokenB \in LiquidTokens THEN {2000} ELSE {}
\* output amounts a reverse quote (B -> A) may carry
ReverseOutputs == {990000, 1030000, 1150000}
\* a trading pair list whose traded asset is not the base asset, and the
\* outputs its conversion quote to the base asset may carry
CONVERTED_PAIRS == << [tokenA |-> "USDC", tokenB |-> "DAI"] >>
ConversionOutputs == {860}
\* quoted outputs that the slippage factors do not divide
UnevenForwardOutputs == {2019}
UnevenReverseOutputs == {1030049}
\* provider.getFeeData(): a throw, or feeData.gasPrice (0 stands for null or 0n)
FeeDataResults == {Threw, Ok(0), Ok(1)}
\* the same on a congested network: gasPrice is 2 gwei
CongestedFeeData == {Ok(200)}

\* loadConfig's requiredEnvVars, and which of them the environment lacks
RequiredEnvVars ==
    {"RPC_URL", "PRIVATE_KEY", "MIN_PROFIT_THRESHOLD", "MAX_GAS_PRICE_GWEI",
     "TRADE_AMOUNT_ETH"}
MissingEnvVars == {{}} \cup { {v} : v \in RequiredEnvVars }
\* provider.getBalance(wallet) at startup
EthBalances == {Threw, Ok(999999), Ok(1000000)}
\* balanceOf reads of the input asset at startup and at validation
InputBalances == {Threw, Ok(0), Ok(1000000)}
\* balanceOf reads of the bought asset, before the buy and at settlement
BalancesBefore == {Threw, Ok(0), Ok(1)}
BalancesAfter == {Threw, Ok(0), Ok(1), Ok(2000)}
\* allowance reads
Allowances == {Threw, Ok(0), Ok(2000000000)}
\* receipt.gasUsed * receipt.gasPrice of a confirmed swap
GasCosts == {200}
\* the same per leg: the two swaps do not cost the same
SwapGasCosts(tradeType) == IF tradeType = "BUY" THEN {200} ELSE {300}
\* the profitPercent a caller other than the scanner may claim for an
\* opportunity (15%)
ClaimedPercents == {1500}

----------------------------------------------------------------------------
(* Arithmetic of the code *)

\* bigint division: truncates toward zero
BigIntDiv(a, b) ==
    IF a >= 0 THEN a \div b ELSE -((-a) \div b)

----------------------------------------------------------------------------
(* PriceMonitor.getQuoteV3, as the scanner sees it: null, or a quote for the
   requested input amount with a strictly positive output amount *)

Quote(dexName, amountIn, amountOut) ==
    [ dex          |-> DexDisplayName(dexName),
      inputAmount  |-> amountIn,
      outputAmount |-> amountOut,
      gasEstimate  |-> GasEstimate ]

\* answer: None (no tier yields an output) or Some(output amount)
getQuoteV3(dexName, amountIn, answer) ==
    IF answer = None THEN None ELSE Some(Quote(dexName, amountIn, answer[1]))

QuoteAnswers(outputs) == {None} \cup { Some(o) : o \in outputs }

----------------------------------------------------------------------------
(* PriceMonitor *)

\* the quote requests made of the price monitor when it runs alone: two
\* amounts on one venue and pair (one pool key, two cache keys) and the same
\* pair on the other venue
QuoteRequests ==
    { [dexName |-> "UNISWAP_V3", tokenIn |-> "WETH", tokenOut |-> "DAI", amountIn |-> 1000000],
      [dexName |-> "UNISWAP_V3", tokenIn |-> "WETH", tokenOut |-> "DAI", amountIn |-> 2000000],
      [dexName |-> "PANCAKESWAP_V3", tokenIn |-> "WETH", tokenOut |-> "DAI", amountIn |-> 1000000] }

\* `${dexInfo.name}-${tokenIn.symbol}-${tokenOut.symbol}-${amountIn}`
CacheKey(req) == << DexDisplayName(req.dexName), req.tokenIn, req.tokenOut, req.amountIn >>
\* `${dexInfo.name}-${tokenIn.address}-${tokenOut.address}-${fee}`
PoolCacheKey(req, fee) == << DexDisplayName(req.dexName), req.tokenIn, req.tokenOut, fee >>

CacheKeys == { CacheKey(req) : req \in QuoteRequests }
PoolCacheKeys ==
    { PoolCacheKey(req, FEE_TIERS[t]) : req \in QuoteRequests, t \in 1..Len(FEE_TIERS) }

\* requests quoted from a pool's square-root price: both directions of a pair
\* of equal precision and of a pair of different precision
PoolRequests ==
    { [dexName |-> "UNISWAP_V3", tokenIn |-> p[1], tokenOut |-> p[2], amountIn |-> a] :
        p \in {<<"WETH", "DAI">>, <<"DAI", "WETH">>, <<"WETH", "USDC">>, <<"USDC", "WETH">>},
        a \in {1, 6, 10, 100, 1000, 10000} }
\* slot0.sqrtPriceX96 of a pool with liquidity: prices from 1/16 to 16
SqrtPrices == {4, 8, 16, 24, 32, 64}

\* what the chain answers to the reads of one getQuoteForFeeTier call: getPool
\* gives the zero address or throws, the pool reads throw or show no liquidity,
\* or the pool's price gives an output amount (0 when it truncates to nothing)
TierOutputs == {0, 1900, 2000}
TierAnswer(kind, out) == [kind |-> kind, out |-> out]
TierAnswers ==
    { TierAnswer(k, 0) : k \in {"noPool", "getPoolThrew", "noLiquidity", "readThrew"} }
        \cup { TierAnswer("price", o) : o \in TierOutputs }
NoPool == TierAnswer("noPool", 0)
GetPoolThrew == TierAnswer("getPoolThrew", 0)
NoLiquidity == TierAnswer("noLiquidity", 0)
ReadThrew == TierAnswer("readThrew", 0)
Price(o) == TierAnswer("price", o)

\* the chain as one getQuoteV3 call finds it: the answer of each fee tier, in
\* FEE_TIERS order. No tier answers; two tiers tie on the largest output
\* between smaller ones; every output truncates to zero; the largest output
\* comes first; it comes last; one tier alone answers.
ChainStates ==
    { << NoPool, GetPoolThrew, NoLiquidity, ReadThrew >>,
      << Price(1900), Price(2000), Price(2000), Price(1900) >>,
      << Price(0), NoPool, Price(0), NoLiquidity >>,
      << Price(2000), Price(1900), NoPool, Price(0) >>,
      << NoLiquidity, Price(1900), ReadThrew, Price(2000) >>,
      << GetPoolThrew, ReadThrew, Price(1900), GetPoolThrew >> }

\* 2n ** 96n, scaled down: square-root prices are kept with 4 fractional bits
\* in place of 96
Q96 == 16

\* TokenInfo.decimals, kept in thirds (18 as 6, 6 as 2) so that 10 to their
\* difference stays a machine integer
Decimals(token) == IF token \in {"USDC", "USDbC"} THEN 2 ELSE 6

\* the leading byte of TokenInfo.address, which orders the addresses used
AddressByte(token) ==
    CASE token = "WETH" -> 66 [] token = "USDC" -> 131 [] token = "DAI" -> 80
      [] token = "USDbC" -> 217 [] token = "cbETH" -> 42 [] OTHER -> 31

\* tokenIn.address.toLowerCase() < tokenOut.address.toLowerCase()
token0IsInput(tokenIn, tokenOut) == AddressByte(tokenIn) < AddressByte(tokenOut)

\* 10n ** BigInt(k): a negative exponent is a RangeError
BigIntPow10(k) == IF k < 0 THEN Threw ELSE Ok(10 ^ k)

\* calculateOutputFromSqrtPrice: whatever is thrown inside gives 0n
calculateOutputFromSqrtPrice_LessFee(amountIn, sqrtPriceX96, decimalsIn, decimalsOut, isToken0) ==
    IF isToken0
    THEN BigIntDiv(amountIn * sqrtPriceX96 * sqrtPriceX96, Q96 * Q96) - 3
    ELSE BigIntDiv(amountIn * Q96 * Q96, sqrtPriceX96 * sqrtPriceX96) - 3
calculateOutputFromSqrtPrice(amountIn, sqrtPriceX96, decimalsIn, decimalsOut, isToken0) ==
    LET decimalAdjustment == BigIntPow10(decimalsOut - decimalsIn)
    IN  IF isToken0
        THEN LET amountOut == BigIntDiv(amountIn * sqrtPriceX96 * sqrtPriceX96, Q96 * Q96)
             IN  IF decimalAdjustment.ok THEN amountOut * decimalAdjustment.v ELSE 0
        ELSE IF sqrtPriceX96 = 0 THEN 0
             ELSE LET amountOut ==
                          BigIntDiv(amountIn * Q96 * Q96, sqrtPriceX96 * sqrtPriceX96)
                  IN  IF decimalAdjustment.ok THEN amountOut * decimalAdjustment.v ELSE 0

\* getQuoteForFeeTier once the pool is known to hold liquidity: the output is
\* derived from slot0's square-root price, and 0n gives no quote
QuoteFromSlot0(req, sqrtPriceX96) ==
    LET amountOut == calculateOutputFromSqrtPrice(
                         req.amountIn, sqrtPriceX96, Decimals(req.tokenIn),
                         Decimals(req.tokenOut), token0IsInput(req.tokenIn, req.tokenOut))
    IN  IF amountOut = 0 THEN None ELSE Some(Quote(req.dexName, req.amountIn, amountOut))

\* this.priceCache.get(cacheKey): the entry, when it has not outlived the TTL
CacheLookup_Miss(cache, key) == None
CacheLookup(cache, key) ==
    IF cache[key] # None /\ cache[key][1].age < TTL THEN Some(cache[key][1].quote) ELSE None

\* getQuoteForFeeTier, given the memo of the tier's pool and the chain's
\* answer: the quote or null, the memo afterwards, and whether the chain was read
getQuoteForFeeTier_NoMemo(req, memo, answer) ==
    IF memo = "no"
    THEN [quote |-> None, memo |-> memo, read |-> FALSE]
    ELSE IF answer.kind = "price" /\ answer.out # 0
         THEN [quote |-> Some(Quote(req.dexName, req.amountIn, answer.out)),
               memo |-> "yes", read |-> TRUE]
         ELSE [quote |-> None,
               memo |-> IF answer.kind = "price" THEN "yes" ELSE memo,
               read |-> TRUE]
getQuoteForFeeTier_ZeroKept(req, memo, answer) ==
    IF memo = "no"
    THEN [quote |-> None, memo |-> memo, read |-> FALSE]
    ELSE IF answer.kind = "price"
         THEN [quote |-> Some(Quote(req.dexName, req.amountIn, answer.out)),
               memo |-> "yes", read |-> TRUE]
         ELSE [quote |-> None,
               memo |-> IF answer.kind \in {"noPool", "noLiquidity"} THEN "no" ELSE memo,
               read |-> TRUE]
getQuoteForFeeTier(req, memo, answer) ==
    IF memo = "no"
    THEN [quote |-> None, memo |-> memo, read |-> FALSE]
    ELSE IF answer.kind \in {"getPoolThrew", "readThrew"}
         THEN [quote |-> None, memo |-> memo, read |-> TRUE]
         ELSE IF answer.kind \in {"noPool", "noLiquidity"}
              THEN [quote |-> None, memo |-> "no", read |-> TRUE]
              ELSE IF answer.out = 0
                   THEN [quote |-> None, memo |-> "yes", read |-> TRUE]
                   ELSE [quote |-> Some(Quote(req.dexName, req.amountIn, answer.out)),
                         memo |-> "yes", read |-> TRUE]

\* if (quote && quote.outputAmount > bestAmountOut)
BetterQuote_LastMaximum(quote, bestAmountOut) ==
    quote # None /\ quote[1].outputAmount >= bestAmountOut
BetterQuote(quote, bestAmountOut) ==
    quote # None /\ quote[1].outputAmount > bestAmountOut

----------------------------------------------------------------------------
(* ArbitrageScanner *)

\* parseUnits(tradeAmountETH.toString(), tokenA.decimals): amounts of an
\* 18-decimals asset are kept in units of 10^10, those of a 6-decimals asset
\* in its own smallest unit
parseTradeAmount(tradeAmountETH, token) ==
    IF token \in {"USDC", "USDbC"} THEN tradeAmountETH \div 100 ELSE tradeAmountETH

\* profitAmount of a candidate whose reverse quote was answered
ProfitAmount(reverseAnswer, amountIn) ==
    IF reverseAnswer # None /\ reverseAnswer[1] > amountIn
    THEN reverseAnswer[1] - amountIn ELSE 0

\* estimateGasCost: the live gas price with a 20% buffer, or the configured
\* maximum when getFeeData throws
estimateGasCost_NoBuffer(gasEstimate, feeData, maxGasPriceGwei) ==
    IF feeData.ok
    THEN gasEstimate * (IF feeData.v # 0 THEN feeData.v ELSE Gwei)
    ELSE gasEstimate * (maxGasPriceGwei * Gwei)
estimateGasCost(gasEstimate, feeData, maxGasPriceGwei) ==
    IF feeData.ok
    THEN LET gasPrice == IF feeData.v # 0 THEN feeData.v ELSE Gwei
         IN  BigIntDiv(gasEstimate * gasPrice * 120, 100)
    ELSE gasEstimate * (maxGasPriceGwei * Gwei)

\* estimateGasCost rejects when the fallback of its catch block cannot parse
\* the configured maximum
estimateGasCostThrows(feeData, maxGasPriceGwei) ==
    ~feeData.ok /\ maxGasPriceGwei = Unparsable

\* convertToETH: the output of a conversion quote, 0n when there is none
convertToETH(amount, token, convQuote) ==
    IF token = "WETH" THEN amount
    ELSE IF convQuote = None THEN 0 ELSE convQuote[1].outputAmount

\* Number(x * 10000n / amountIn) / 100, kept in hundredths of a percent
PercentOf(amount, amountIn) == BigIntDiv(amount * 10000, amountIn)

\* the validity filter of a candidate
IsRealistic_NoThreshold(netProfitPercent, minProfitThreshold, reverseOut, buyOut) ==
    /\ netProfitPercent < SanityCeiling
    /\ reverseOut > 0
    /\ buyOut > 0
IsRealistic(netProfitPercent, minProfitThreshold, reverseOut, buyOut) ==
    /\ netProfitPercent >= minProfitThreshold
    /\ netProfitPercent < SanityCeiling
    /\ reverseOut > 0
    /\ buyOut > 0

\* the input amount of the reverse quote request: the exact output of the buy
\* quote
ReverseInput_OriginalInput(buy, amountIn) == amountIn
ReverseInput(buy, amountIn) == buy.quote.outputAmount

\* the body of the (i, j) loop: the opportunities (none or one) a candidate adds
EvaluateCandidate(pair, amountIn, buy, sellDexName, reverseAnswer, feeData, convQuote, cfg) ==
    LET reverseQuote == getQuoteV3(sellDexName, ReverseInput(buy, amountIn), reverseAnswer)
    IN
    IF reverseQuote = None THEN <<>>
    ELSE
      LET rq == reverseQuote[1]
          profitAmount == IF rq.outputAmount > amountIn
                          THEN rq.outputAmount - amountIn ELSE 0
      IN  IF profitAmount > 0
          THEN
            LET estimatedGasCost ==
                    estimateGasCost(buy.quote.gasEstimate + rq.gasEstimate,
                                    feeData, cfg.maxGasPriceGwei)
                profitInETH == IF pair.tokenA = "WETH" THEN profitAmount
                               ELSE convertToETH(profitAmount, pair.tokenA, convQuote)
                netProfit == IF profitInETH > estimatedGasCost
                             THEN profitInETH - estimatedGasCost ELSE 0
                netProfitPercent == PercentOf(netProfit, amountIn)
            IN  IF IsRealistic(netProfitPercent, cfg.minProfitThreshold,
                               rq.outputAmount, buy.quote.outputAmount)
                THEN << [ tokenA           |-> pair.tokenA,
                          tokenB           |-> pair.tokenB,
                          buyDEX           |-> buy.dexName,
                          sellDEX          |-> sellDexName,
                          profitPercent    |-> netProfitPercent,
                          profitAmount     |-> netProfit,
                          buyQuote         |-> buy.quote,
                          sellQuote        |-> rq,
                          estimatedGasCost |-> estimatedGasCost,
                          netProfit        |-> netProfit ] >>
                ELSE <<>>
          ELSE <<>>

\* the venues quote while the opportunities found so far, and those one more
\* trading pair can add, stay within MaxDeliveries
QuoteBudget(found) ==
    found + Len(DEXES) * (Len(DEXES) - 1) <= MaxDeliveries

\* what the (i, j) loop body asks for and is answered for one candidate: the
\* quotes' amounts, the network's gas price when getFeeData gave one, and the
\* gas estimate (0 when the body does not get that far)
CandidateFacts(pair, amountIn, buy, sellDexName, reverseAnswer, feeData, convQuote, cfg) ==
    LET reverseQuote == getQuoteV3(sellDexName, ReverseInput(buy, amountIn), reverseAnswer)
        reverseOut == IF reverseQuote = None THEN 0 ELSE reverseQuote[1].outputAmount
    IN  [ buyDEX     |-> buy.dexName,
          sellDEX    |-> sellDexName,
          amountIn   |-> amountIn,
          buyOut     |-> buy.quote.outputAmount,
          reverseIn  |-> ReverseInput(buy, amountIn),
          quoted     |-> reverseQuote # None,
          reverseOut |-> reverseOut,
          gasPrice   |-> IF reverseOut > amountIn /\ feeData.ok /\ feeData.v # 0
                         THEN Some(feeData.v) ELSE None,
          lookup     |-> IF reverseOut <= amountIn THEN "none"
                         ELSE IF ~feeData.ok THEN "threw"
                         ELSE IF feeData.v = 0 THEN "null" ELSE "price",
          gasCost    |-> IF reverseOut > amountIn
                         THEN estimateGasCost(buy.quote.gasEstimate + GasEstimate,
                                              feeData, cfg.maxGasPriceGwei)
                         ELSE 0,
          threw      |-> /\ reverseOut > amountIn
                         /\ estimateGasCostThrows(feeData, cfg.maxGasPriceGwei),
          conversion |-> IF \/ reverseOut <= amountIn
                            \/ estimateGasCostThrows(feeData, cfg.maxGasPriceGwei)
                            \/ pair.tokenA = "WETH"
                         THEN "none"
                         ELSE IF convQuote = None THEN "failed" ELSE "quoted" ]

\* getQuotesFromAllDexes: the venues, in DEXES order, whose quote exists and
\* has a positive output
getQuotesFromAllDexes(amountIn, fa) ==
    LET Q(i) == getQuoteV3(DEXES[i], amountIn, fa[i])
        Keep(i) == Q(i) # None /\ Q(i)[1].outputAmount > 0
        F[i \in 0..Len(DEXES)] ==
            IF i = 0 THEN <<>>
            ELSE IF Keep(i)
                 THEN Append(F[i-1], [dexName |-> DEXES[i], quote |-> Q(i)[1]])
                 ELSE F[i-1]
    IN  F[Len(DEXES)]

\* the (i, j) pairs with i # j, in the order the nested loops visit them
CandidateOrder(n) ==
    [ k \in 1..(n * (n - 1)) |->
        LET i == ((k - 1) \div (n - 1)) + 1
            r == ((k - 1) % (n - 1)) + 1
        IN  <<i, IF r >= i THEN r + 1 ELSE r>> ]

Candidates(n) == { CandidateOrder(n)[k] : k \in 1..(n * (n - 1)) }

\* one iteration of the TRADING_PAIRS loop of scanForOpportunities
ScanOnePair(pair, amountIn, fa, ra, fd, cq, cfg) ==
    LET quotesAtoB == getQuotesFromAllDexes(amountIn, fa)
        n == Len(quotesAtoB)
        order == CandidateOrder(n)
        F[k \in 0..(n * (n - 1))] ==
            IF k = 0 THEN <<>>
            ELSE LET c == order[k]
                 IN  F[k-1] \o EvaluateCandidate(pair, amountIn, quotesAtoB[c[1]],
                                                 quotesAtoB[c[2]].dexName,
                                                 ra[c], fd[c], cq[c], cfg)
    IN  IF n < 2 THEN <<>> ELSE F[n * (n - 1)]

\* the candidates that iteration goes through, in loop order
ScannedCandidates(pair, amountIn, fa, ra, fd, cq, cfg) ==
    LET quotesAtoB == getQuotesFromAllDexes(amountIn, fa)
        n == Len(quotesAtoB)
        order == CandidateOrder(n)
    IN  IF n < 2 THEN <<>>
        ELSE [ k \in 1..(n * (n - 1)) |->
                 CandidateFacts(pair, amountIn, quotesAtoB[order[k][1]],
                                quotesAtoB[order[k][2]].dexName,
                                ra[order[k]], fd[order[k]], cq[order[k]], cfg) ]

----------------------------------------------------------------------------
(* TradeExecutor: pure parts *)

\* the values the check after the swap's tx.wait() tells apart: a receipt
\* (status 1 with its gas cost, or status 0), null, or a rejected promise
Receipt(status, gas) == [kind |-> "receipt", status |-> status, gas |-> gas]
NullReceipt == [kind |-> "null", status |-> 0, gas |-> 0]
WaitThrew == [kind |-> "throw", status |-> 0, gas |-> 0]
WaitResultsOf(gasCosts) ==
    { Receipt(1, g) : g \in gasCosts } \cup {Receipt(0, 0), NullReceipt, WaitThrew}
WaitResults == WaitResultsOf(GasCosts)
\* await tx.wait() of the approve transaction, whose value is not looked at:
\* with the default single confirmation the promise resolves with the receipt
\* of the mined transaction and is rejected for a reverted or replaced one
ApproveWaitResults == { Receipt(1, g) : g \in GasCosts } \cup {WaitThrew}

\* factory.getPool for one fee tier: a pool, the zero address, or a throw
PoolLookups == {"pool", "zero", "throw"}

\* the answers to the four probes of one findBestFeeTier call: the tiers before
\* the first pool all miss the same way, the tiers after it are not probed
PoolLookupVectors ==
    { v \in [1..4 -> PoolLookups] :
        LET hits == { i \in 1..4 : v[i] = "pool" }
            first == IF hits = {} THEN 5 ELSE CHOOSE i \in hits : \A j \in hits : i <= j
        IN  /\ \A i \in 1..4 : i > first => v[i] = "zero"
            /\ \A i, j \in 1..4 : (i < first /\ j < first) => v[i] = v[j] }

\* the ghost label of a wait outcome
ReceiptLabel(r) ==
    IF r.kind = "receipt" THEN (IF r.status = 1 THEN "ok" ELSE "reverted") ELSE r.kind

\* if (!receipt || receipt.status === 0)
ReceiptFailed_StatusIgnored(r) == r.kind = "null"
ReceiptFailed(r) == r.kind = "null" \/ r.status = 0

\* if (wethBalance < opportunity.buyQuote.inputAmount)
InsufficientBalance_Unchecked(wethBalance, inputAmount) == FALSE
InsufficientBalance(wethBalance, inputAmount) == wethBalance < inputAmount

\* if (opportunity.profitPercent > 10): the warning is logged
UnusuallyHighProfit(profitPercent) == profitPercent > HighProfitPercent

\* if (!buyResult.success)
BuyFailed(buyResult) == ~buyResult.success

\* if (!sellResult.success)
SellFailed_Ignored(sellResult) == FALSE
SellFailed(sellResult) == ~sellResult.success

\* this.executedTrades++
CountTrade_Forgotten(n) == n
CountTrade(n) == n + 1

\* minAmountOut for a leg: 2% slippage for buys, 5% for sells
SlippageBps_SellForAll(tradeType) == 500
SlippageBps(tradeType) == IF tradeType = "BUY" THEN 200 ELSE 500
MinAmountOut(expectedAmountOut, tradeType) ==
    expectedAmountOut - BigIntDiv(expectedAmountOut * SlippageBps(tradeType), 10000)

\* getReceivedAmount after the balance read: None when it throws 'No tokens
\* received', else 99% of the difference
getReceivedAmount_Undiscounted(balanceAfter, balanceBefore) ==
    LET received == balanceAfter - balanceBefore
    IN  IF received = 0 THEN None ELSE Some(received)
getReceivedAmount_NoZeroCheck(balanceAfter, balanceBefore) ==
    Some(BigIntDiv((balanceAfter - balanceBefore) * 99, 100))
getReceivedAmount(balanceAfter, balanceBefore) ==
    LET received == balanceAfter - balanceBefore
    IN  IF received = 0 THEN None ELSE Some(BigIntDiv(received * 99, 100))

\* findBestFeeTier: the first tier whose pool resolves, else the venue's fallback
FeeTiersOf(dexName) ==
    IF DexDisplayName(dexName) = "PancakeSwap V3"
    THEN <<100, 500, 2500, 10000>> ELSE <<100, 500, 3000, 10000>>

findBestFeeTier_FallbackOnly(dexName, lookups) ==
    IF DexDisplayName(dexName) = "PancakeSwap V3" THEN 500 ELSE 3000
findBestFeeTier(dexName, lookups) ==
    LET feeTiers == FeeTiersOf(dexName)
        hits == { i \in 1..Len(feeTiers) : lookups[i] = "pool" }
    IN  IF hits # {}
        THEN feeTiers[CHOOSE i \in hits : \A j \in hits : i <= j]
        ELSE IF DexDisplayName(dexName) = "PancakeSwap V3" THEN 500 ELSE 3000

\* the key of approvedTokens: `${tokenAddress}-${spender}`
ApprovalKey(token, dexName) == <<token, dexName>>
\* this.approvedTokens.add(key)
RecordApproval_Forgotten(approved, key) == approved
RecordApproval_Replacing(approved, key) == {key}
RecordApproval(approved, key) == approved \cup {key}

\* a TradeResult of executeArbitrage
FailResult_NoCause(msg) ==
    [success |-> FALSE, error |-> <<>>, txHash |-> 0, profit |-> 0, gasUsed |-> 0]
FailResult(msg) ==
    [success |-> FALSE, error |-> msg, txHash |-> 0, profit |-> 0, gasUsed |-> 0]

\* what executeSingleTrade returns from its catch block
LegFailure(msg) ==
    [success |-> FALSE, error |-> <<msg>>, txHash |-> 0,
     gasUsed |-> None, balanceBefore |-> None]

NoLegResult ==
    [success |-> FALSE, error |-> <<>>, txHash |-> 0,
     gasUsed |-> None, balanceBefore |-> None]

\* (x.gasUsed || 0n)
GasOrZero(legResult) == IF legResult.gasUsed = None THEN 0 ELSE legResult.gasUsed[1]
\* const totalGasUsed = (buyResult.gasUsed || 0n) + (sellResult.gasUsed || 0n)
totalGasUsed_SellOnly(buyResult, sellResult) == GasOrZero(sellResult)
totalGasUsed(buyResult, sellResult) == GasOrZero(buyResult) + GasOrZero(sellResult)

----------------------------------------------------------------------------
(* State *)

VARIABLES
    config,           \* BotConfig: minProfitThreshold, tradeAmount, maxGasPriceGwei
    startup,          \* what main() met before the scanner: its checks and their end
    scanning,         \* ArbitrageScanner.scanning
    spc,              \* where startScanning stands
    pairIdx,          \* the TRADING_PAIRS index scanForOpportunities is at
    opportunities,    \* the opportunities of this cycle not yet handed over
    scanned,          \* the candidates the trading pair just scanned went through
    status,           \* ZeroBot.status
    tradesExecuted,   \* ZeroBot.tradesExecuted
    botTotalProfit,   \* ZeroBot.totalProfit
    approvedTokens,   \* TradeExecutor.approvedTokens
    approvals,        \* the keys whose approve transaction was confirmed
    executedTrades,   \* TradeExecutor.executedTrades
    totalProfit,      \* TradeExecutor.totalProfit
    ex,               \* the executeArbitrage activation: position, locals, history
    caller,           \* who awaits the running handleOpportunity call
    execStarted,      \* executeArbitrage invocations started
    execReturned,     \* executeArbitrage invocations that returned a TradeResult
    delivered,        \* opportunities handed to handleOpportunity
    dropped,          \* opportunities handleOpportunity skipped
    priceCache,       \* PriceMonitor.priceCache: per key, the quote and its age
    poolCache,        \* PriceMonitor.poolCache: per pool key, unset / no / yes
    pm,               \* the getQuoteV3 activation of the price monitor run alone
    quoteCalls        \* getQuoteV3 calls made of it

vars == << config, startup, scanning, spc, pairIdx, opportunities, scanned, status,
           tradesExecuted, botTotalProfit, approvedTokens, approvals,
           executedTrades, totalProfit, ex, caller, execStarted, execReturned, delivered, dropped,
           priceCache, poolCache, pm, quoteCalls >>

monitorVars == << priceCache, poolCache, pm, quoteCalls >>
scannerVars == << scanning, spc, pairIdx, opportunities, scanned, monitorVars >>
bootVars == << config, startup >>
botCounters == << tradesExecuted, botTotalProfit >>
approvalVars == << approvedTokens, approvals >>
executorCounters == << executedTrades, totalProfit >>
deliveryCounters == << delivered, dropped >>

\* no executeArbitrage activation
IdleEx ==
    [ pc             |-> "idle",
      opp            |-> None,
      leg            |-> "",
      amountIn       |-> 0,
      expectedOut    |-> 0,
      balanceBefore  |-> None,
      fee            |-> 0,
      probes         |-> <<>>,
      minAmountOut   |-> 0,
      buyResult      |-> NoLegResult,
      sellResult     |-> NoLegResult,
      result         |-> None,
      txs            |-> <<>>,
      buyReceipt     |-> "",
      sellReceipt    |-> "",
      settlementRead |-> FALSE,
      received       |-> None,
      inputBalance   |-> None,
      warned         |-> FALSE,
      tradesAtStart  |-> 0,
      profitAtStart  |-> 0 ]

\* no getQuoteV3 activation
IdlePm ==
    [ pc            |-> "idle",
      req           |-> None,
      tier          |-> 0,
      chain         |-> <<>>,
      sqrtPriceX96  |-> None,
      bestQuote     |-> None,
      bestAmountOut |-> 0,
      bestTier      |-> 0,
      hit           |-> None,
      lastAnswer    |-> "",
      tierQuotes    |-> <<>>,
      readTiers     |-> {},
      result        |-> None ]

Configs ==
    [ minProfitThreshold : ThresholdValues,
      tradeAmount        : TradeAmounts,
      maxGasPriceGwei    : MaxGasPriceGweiValues ]

\* main() has not run
NotStarted == [missing |-> {}, ethBalance |-> None, wethBalance |-> None, fatal |-> ""]

Init ==
    /\ config \in Configs
    /\ startup = NotStarted
    /\ scanning = FALSE
    /\ spc = "init"
    /\ pairIdx = 1
    /\ opportunities = <<>>
    /\ scanned = <<>>
    /\ status = IDLE
    /\ tradesExecuted = 0
    /\ botTotalProfit = 0
    /\ approvedTokens = {}
    /\ approvals = {}
    /\ executedTrades = 0
    /\ totalProfit = 0
    /\ ex = IdleEx
    /\ caller = "none"
    /\ execStarted = 0
    /\ execReturned = 0
    /\ delivered = 0
    /\ dropped = 0
    /\ priceCache = [k \in CacheKeys |-> None]
    /\ poolCache = [k \in PoolCacheKeys |-> "unset"]
    /\ pm = IdlePm
    /\ quoteCalls = 0

----------------------------------------------------------------------------
(* TradeExecutor.executeArbitrage and executeSingleTrade, one step per await *)

Opp == ex.opp[1]
LegDex == IF ex.leg = "BUY" THEN Opp.buyDEX ELSE Opp.sellDEX
LegTokenIn == IF ex.leg = "BUY" THEN Opp.tokenA ELSE Opp.tokenB
LegTokenOut == IF ex.leg = "BUY" THEN Opp.tokenB ELSE Opp.tokenA

\* executeArbitrage returns a TradeResult (its promise resolves)
ExecReturns(e, res) ==
    /\ ex' = [e EXCEPT !.pc = "returned", !.result = Some(res)]
    /\ execReturned' = execReturned + 1

\* executeArbitrage suspends at its next await
ExecContinues(e) ==
    /\ ex' = e
    /\ execReturned' = execReturned
    /\ UNCHANGED executorCounters

\* the catch block of executeArbitrage
ExecFails(e, msg) ==
    /\ ExecReturns(e, FailResult(msg))
    /\ UNCHANGED executorCounters

\* executeSingleTrade is entered and runs to its first await
StartLeg(e, tradeType, amountIn, expectedAmountOut) ==
    [e EXCEPT !.pc = "balanceBefore", !.leg = tradeType, !.amountIn = amountIn,
              !.expectedOut = expectedAmountOut, !.fee = 0, !.probes = <<>>,
              !.minAmountOut = 0]

\* executeSingleTrade returns: its locals are gone
EndLeg(e) ==
    [e EXCEPT !.leg = "", !.amountIn = 0, !.expectedOut = 0, !.balanceBefore = None,
              !.fee = 0, !.probes = <<>>, !.minAmountOut = 0]

\* executeSingleTrade has returned legResult: the rest of executeArbitrage up
\* to its next await or its return
LegReturns(e0, legResult) ==
    LET e == EndLeg(e0)
    IN
    IF e0.leg = "BUY"
    THEN IF BuyFailed(legResult)
         THEN ExecFails(e, <<"Buy trade failed">> \o legResult.error)
         ELSE ExecContinues([e EXCEPT !.pc = "sleep", !.buyResult = legResult])
    ELSE IF SellFailed(legResult)
         THEN ExecFails([e EXCEPT !.sellResult = legResult],
                        <<"Sell trade failed">> \o legResult.error)
         ELSE LET gas == totalGasUsed(e.buyResult, legResult)
                  profit == e.opp[1].netProfit - gas
              IN  /\ executedTrades' = CountTrade(executedTrades)
                  /\ totalProfit' = totalProfit + profit
                  /\ ExecReturns([e EXCEPT !.sellResult = legResult],
                                 [success |-> TRUE, error |-> <<>>,
                                     txHash |-> legResult.txHash,
                                     profit |-> profit, gasUsed |-> gas])

\* validateOpportunity: the balance check of the input asset, then the warning
\* about an unusually high profit
ExecValidate ==
    /\ ex.pc = "validate"
    /\ \E bal \in InputBalances :
         IF ~bal.ok
         THEN ExecFails(ex, <<"chain error">>)
         ELSE LET e1 == [ex EXCEPT !.inputBalance = Some(bal.v)]
                  e2 == [e1 EXCEPT !.warned = UnusuallyHighProfit(Opp.profitPercent)]
              IN  IF InsufficientBalance(bal.v, Opp.buyQuote.inputAmount)
                  THEN ExecFails(e1, <<"Insufficient WETH">>)
                  ELSE ExecContinues(StartLeg(e2, "BUY", Opp.buyQuote.inputAmount,
                                              Opp.buyQuote.outputAmount))
    /\ UNCHANGED << bootVars, scannerVars, status, botCounters, approvalVars,
                    caller, execStarted, deliveryCounters >>

\* executeSingleTrade: balanceOf(tokenOut) before the trade, then ensureApproval
\* up to its allowance read (the sell leg's balanceBefore is never read again)
TradeBalanceBefore ==
    /\ ex.pc = "balanceBefore"
    /\ \E bal \in BalancesBefore :
         IF ~bal.ok
         THEN LegReturns(ex, LegFailure("chain error"))
         ELSE LET e1 == IF ex.leg = "BUY"
                        THEN [ex EXCEPT !.balanceBefore = Some(bal.v)] ELSE ex
              IN  IF ApprovalKey(LegTokenIn, LegDex) \in approvedTokens
                  THEN ExecContinues([e1 EXCEPT !.pc = "feeTier"])
                  ELSE ExecContinues([e1 EXCEPT !.pc = "allowance"])
    /\ UNCHANGED << bootVars, scannerVars, status, botCounters, approvalVars,
                    caller, execStarted, deliveryCounters >>

\* ensureApproval: the allowance read
TradeAllowance ==
    /\ ex.pc = "allowance"
    /\ \E a \in Allowances :
         IF ~a.ok
         THEN LegReturns(ex, LegFailure("chain error")) /\ UNCHANGED approvalVars
         ELSE IF a.v < ex.amountIn
              THEN ExecContinues([ex EXCEPT !.pc = "approveSend"])
                   /\ UNCHANGED approvalVars
              ELSE /\ approvedTokens' =
                        RecordApproval(approvedTokens, ApprovalKey(LegTokenIn, LegDex))
                   /\ UNCHANGED approvals
                   /\ ExecContinues([ex EXCEPT !.pc = "feeTier"])
    /\ UNCHANGED << bootVars, scannerVars, status, botCounters,
                    caller, execStarted, deliveryCounters >>

\* ensureApproval: token.approve(spender, MaxUint256) is sent
TradeApproveSend ==
    /\ ex.pc = "approveSend"
    /\ \E sent \in BOOLEAN :
         IF ~sent
         THEN LegReturns(ex, LegFailure("chain error"))
         ELSE ExecContinues([ex EXCEPT
                  !.pc = "approveWait",
                  !.txs = Append(@, "approve")])
    /\ UNCHANGED << bootVars, scannerVars, status, botCounters, approvalVars,
                    caller, execStarted, deliveryCounters >>

\* ensureApproval: await tx.wait(), then the key is recorded
TradeApproveWait ==
    /\ ex.pc = "approveWait"
    /\ \E r \in ApproveWaitResults :
         IF r.kind = "throw"
         THEN LegReturns(ex, LegFailure("chain error")) /\ UNCHANGED approvalVars
         ELSE /\ approvedTokens' =
                   RecordApproval(approvedTokens, ApprovalKey(LegTokenIn, LegDex))
              /\ approvals' = IF r.kind = "receipt" /\ r.status = 1
                              THEN approvals \cup {ApprovalKey(LegTokenIn, LegDex)}
                              ELSE approvals
              /\ ExecContinues([ex EXCEPT !.pc = "feeTier"])
    /\ UNCHANGED << bootVars, scannerVars, status, botCounters,
                    caller, execStarted, deliveryCounters >>

\* findBestFeeTier, then the call is encoded (a negative uint256 cannot be);
\* probes keeps what the lookups answered until the swap is sent
TradeFeeTierWith(vectors) ==
    /\ ex.pc = "feeTier"
    /\ \E lookups \in vectors :
         IF ex.amountIn < 0
         THEN LegReturns(ex, LegFailure("value out-of-bounds"))
         ELSE ExecContinues([ex EXCEPT
                  !.pc = "send",
                  !.fee = findBestFeeTier(LegDex, lookups),
                  !.probes = lookups,
                  !.minAmountOut = MinAmountOut(ex.expectedOut, ex.leg)])
    /\ UNCHANGED << bootVars, scannerVars, status, botCounters, approvalVars,
                    caller, execStarted, deliveryCounters >>

TradeFeeTier == TradeFeeTierWith(PoolLookupVectors)

\* factory.getPool of the executor on the chain a quote was taken from: the
\* zero address where the quote's lookup found none, a throw where it threw,
\* the pool otherwise (with or without liquidity)
LookupAt(answer) ==
    IF answer.kind = "noPool" THEN "zero"
    ELSE IF answer.kind = "getPoolThrew" THEN "throw" ELSE "pool"
\* the answers to findBestFeeTier's probes on that chain; a tier that is not
\* in FEE_TIERS was not looked up for the quote and answers anything
LookupsOnChain(dexName, chain) ==
    { v \in [1..Len(FeeTiersOf(dexName)) -> PoolLookups] :
        \A i \in 1..Len(FeeTiersOf(dexName)), k \in 1..Len(FEE_TIERS) :
            FeeTiersOf(dexName)[i] = FEE_TIERS[k] => v[i] = LookupAt(chain[k]) }
\* the buy leg probes the chain its quote came from
TradeFeeTierQuoted ==
    TradeFeeTierWith(IF ex.leg = "BUY" THEN LookupsOnChain(LegDex, pm.chain)
                     ELSE PoolLookupVectors)

\* wallet.sendTransaction to the router
TradeSend ==
    /\ ex.pc = "send"
    /\ \E sent \in BOOLEAN :
         IF ~sent
         THEN LegReturns(ex, LegFailure("chain error"))
         ELSE ExecContinues([ex EXCEPT
                  !.pc = "wait",
                  !.probes = <<>>,
                  !.txs = Append(@, ex.leg)])
    /\ UNCHANGED << bootVars, scannerVars, status, botCounters, approvalVars,
                    caller, execStarted, deliveryCounters >>

\* await tx.wait() of the swap, the receipt check and the leg's result
TradeWait ==
    /\ ex.pc = "wait"
    /\ \E r \in WaitResultsOf(SwapGasCosts(ex.leg)) :
         LET e1 == IF ex.leg = "BUY"
                   THEN [ex EXCEPT !.buyReceipt = ReceiptLabel(r)]
                   ELSE [ex EXCEPT !.sellReceipt = ReceiptLabel(r)]
         IN  IF r.kind = "throw"
             THEN LegReturns(e1, LegFailure("chain error"))
             ELSE IF ReceiptFailed(r)
                  THEN LegReturns(e1, LegFailure("Transaction failed"))
                  ELSE IF r.kind = "null"
                       THEN LegReturns(e1, LegFailure("TypeError"))
                       ELSE LegReturns(e1, [success |-> TRUE, error |-> <<>>,
                                            txHash |-> Len(ex.txs),
                                            gasUsed |-> Some(r.gas),
                                            balanceBefore |-> ex.balanceBefore])
    /\ UNCHANGED << bootVars, scannerVars, status, botCounters, approvalVars,
                    caller, execStarted, deliveryCounters >>

\* await this.sleep(1000), then getReceivedAmount runs to its balance read
ExecSleep_Pipelined ==
    /\ ex.pc = "sleep"
    /\ ExecContinues(StartLeg(ex, "SELL", Opp.buyQuote.outputAmount,
                              Opp.sellQuote.outputAmount))
    /\ UNCHANGED << bootVars, scannerVars, status, botCounters, approvalVars,
                    caller, execStarted, deliveryCounters >>
ExecSleep ==
    /\ ex.pc = "sleep"
    /\ ExecContinues([ex EXCEPT !.pc = "settle"])
    /\ UNCHANGED << bootVars, scannerVars, status, botCounters, approvalVars,
                    caller, execStarted, deliveryCounters >>

\* getReceivedAmount: balanceAfter is read; the sell leg is entered with 99% of
\* what was received
ExecSettle ==
    /\ ex.pc = "settle"
    /\ \E bal \in BalancesAfter :
         IF ~bal.ok
         THEN ExecFails(ex, <<"chain error">>)
         ELSE LET e1 == [ex EXCEPT !.settlementRead = TRUE]
              IN  IF ex.buyResult.balanceBefore = None
                  THEN ExecFails(e1, <<"TypeError">>)
                  ELSE LET before == ex.buyResult.balanceBefore[1]
                           got == getReceivedAmount(bal.v, before)
                           e2 == [e1 EXCEPT !.received = Some(bal.v - before)]
                       IN  IF got = None
                           THEN ExecFails(e2, <<"No tokens received from buy trade">>)
                           ELSE ExecContinues(StartLeg(e2, "SELL", got[1],
                                                       Opp.sellQuote.outputAmount))
    /\ UNCHANGED << bootVars, scannerVars, status, botCounters, approvalVars,
                    caller, execStarted, deliveryCounters >>

----------------------------------------------------------------------------
(* ZeroBot.handleOpportunity *)

\* if (this.status === ArbitrageStatus.EXECUTING)
AlreadyExecuting_Unchecked(st) == FALSE
AlreadyExecuting(st) == st = EXECUTING

\* executeArbitrage is entered and runs to the balance read of validateOpportunity
NewActivation(o) ==
    [IdleEx EXCEPT !.pc = "validate", !.opp = Some(o),
                   !.tradesAtStart = executedTrades, !.profitAtStart = totalProfit]

\* handleOpportunity up to its await of executeArbitrage: the call returns at
\* once when the bot is executing, else it starts an activation for `who`
HandleOpportunity(o, who) ==
    /\ delivered' = delivered + 1
    /\ IF AlreadyExecuting(status)
       THEN /\ dropped' = dropped + 1
            /\ UNCHANGED << status, ex, caller, execStarted >>
       ELSE /\ status' = EXECUTING
            /\ ex' = NewActivation(o)
            /\ caller' = who
            /\ execStarted' = execStarted + 1
            /\ UNCHANGED dropped
    /\ UNCHANGED << bootVars, botCounters, approvalVars, executorCounters,
                    execReturned >>

\* finally { this.status = ArbitrageStatus.SCANNING }
StatusAfterExecution_SuccessOnly(result) ==
    IF result.success THEN SCANNING ELSE EXECUTING
StatusAfterExecution(result) == SCANNING

\* handleOpportunity after executeArbitrage has returned: the bot's counters, the
\* finally block, and the return to whoever awaits the call
HandleResult ==
    /\ ex.pc = "returned"
    /\ LET result == ex.result[1]
       IN  IF result.success
           THEN /\ tradesExecuted' = tradesExecuted + 1
                /\ botTotalProfit' = botTotalProfit + result.profit
           ELSE UNCHANGED botCounters
    /\ status' = StatusAfterExecution(ex.result[1])
    /\ ex' = IdleEx
    /\ caller' = "none"
    /\ spc' = IF caller = "scanner" THEN "forEach" ELSE spc
    /\ UNCHANGED << bootVars, scanning, pairIdx, opportunities, scanned, monitorVars,
                    approvalVars, executorCounters, execStarted, execReturned,
                    deliveryCounters >>

----------------------------------------------------------------------------
(* ZeroBot.start and ArbitrageScanner.startScanning *)

\* loadConfig: a required variable that is absent (or empty) throws
loadConfigThrows(missing) == missing # {}

\* checkBalances: ethBalance < minEthRequired throws
InsufficientEth_Unchecked(ethBalance) == FALSE
InsufficientEth(ethBalance) == ethBalance < MinEthRequired

\* checkBalances: wethBalance < parseEther(tradeAmountETH) throws
InsufficientWethForTrading(wethBalance, tradeAmount) == wethBalance < tradeAmount

\* what main() met: the variables found missing, the balances read so far, and
\* the message of the error that reached main's catch ("" when none did)
StartupOutcome(missing, eth, weth, tradeAmount) ==
    IF loadConfigThrows(missing)
    THEN [missing |-> missing, ethBalance |-> None, wethBalance |-> None,
          fatal |-> "Missing required environment variable"]
    ELSE IF ~eth.ok
    THEN [missing |-> {}, ethBalance |-> None, wethBalance |-> None,
          fatal |-> "getBalance failed"]
    ELSE IF InsufficientEth(eth.v)
    THEN [missing |-> {}, ethBalance |-> Some(eth.v), wethBalance |-> None,
          fatal |-> "Insufficient ETH balance for gas"]
    ELSE IF ~weth.ok
    THEN [missing |-> {}, ethBalance |-> Some(eth.v), wethBalance |-> None,
          fatal |-> "balanceOf failed"]
    ELSE IF InsufficientWethForTrading(weth.v, tradeAmount)
    THEN [missing |-> {}, ethBalance |-> Some(eth.v), wethBalance |-> Some(weth.v),
          fatal |-> "Insufficient WETH balance for trading"]
    ELSE [missing |-> {}, ethBalance |-> Some(eth.v), wethBalance |-> Some(weth.v),
          fatal |-> ""]

\* main(): new ZeroBot() loads the configuration, start() checks the balances;
\* an error of either reaches main's catch, which logs a fatal error and exits
\* the process.  Otherwise the approvals are initialised (their failures are
\* caught), the status becomes SCANNING and startScanning is entered.
Start ==
    /\ spc = "init"
    /\ \E missing \in MissingEnvVars, eth \in EthBalances, weth \in InputBalances :
         /\ startup' = StartupOutcome(missing, eth, weth, config.tradeAmount)
         /\ IF startup'.fatal = ""
            THEN /\ status' = SCANNING
                 /\ scanning' = TRUE
                 /\ spc' = "loop"
            ELSE /\ spc' = "exited"
                 /\ UNCHANGED << status, scanning >>
    /\ UNCHANGED << config, pairIdx, opportunities, scanned, monitorVars, botCounters,
                    approvalVars, executorCounters, ex, caller, execStarted,
                    execReturned, deliveryCounters >>

\* while (this.scanning): a cycle starts
LoopTest_IgnoresFlag ==
    /\ spc = "loop"
    /\ spc' = "scan"
    /\ pairIdx' = 1
    /\ opportunities' = <<>>
    /\ UNCHANGED << bootVars, scanning, scanned, monitorVars, status, botCounters, approvalVars,
                    executorCounters, ex, caller, execStarted, execReturned,
                    deliveryCounters >>
LoopTest ==
    /\ spc = "loop"
    /\ IF scanning
       THEN /\ spc' = "scan"
            /\ pairIdx' = 1
            /\ opportunities' = <<>>
       ELSE /\ spc' = "stopped"
            /\ UNCHANGED << pairIdx, opportunities >>
    /\ UNCHANGED << bootVars, scanning, scanned, monitorVars, status, botCounters, approvalVars,
                    executorCounters, ex, caller, execStarted, execReturned,
                    deliveryCounters >>

\* scanForOpportunities: one trading pair.  An exception of the loop body ends
\* the cycle in the catch block of startScanning, the list being lost.
ScanPairWith(pairs, feeDataResults, convOutputs) ==
    /\ spc = "scan"
    /\ LET pair == pairs[pairIdx]
           amountIn == parseTradeAmount(config.tradeAmount, pair.tokenA)
           offered == IF QuoteBudget(delivered + Len(opportunities))
                      THEN ForwardOutputs(pair.tokenB) ELSE {}
           convAnswers == IF pair.tokenA = "WETH" THEN {None}
                          ELSE QuoteAnswers(convOutputs)
       IN  \E fa \in [1..Len(DEXES) -> QuoteAnswers(offered)] :
             LET cands == Candidates(Len(getQuotesFromAllDexes(amountIn, fa)))
             IN  \E ra \in [cands -> QuoteAnswers(ReverseOutputs)],
                    fd \in [cands -> feeDataResults],
                    ca \in [cands -> convAnswers] :
                   LET cq == [c \in cands |->
                                getQuoteV3("UNISWAP_V3", ProfitAmount(ra[c], amountIn),
                                           ca[c])]
                       facts == ScannedCandidates(pair, amountIn, fa, ra, fd, cq, config)
                   IN  IF \E k \in 1..Len(facts) : facts[k].threw
                       THEN /\ opportunities' = <<>>
                            /\ scanned' = <<>>
                            /\ spc' = "caught"
                            /\ pairIdx' = pairIdx
                       ELSE /\ opportunities' = opportunities \o
                                   ScanOnePair(pair, amountIn, fa, ra, fd, cq, config)
                            /\ scanned' = facts
                            /\ IF pairIdx < Len(pairs)
                               THEN pairIdx' = pairIdx + 1 /\ spc' = spc
                               ELSE pairIdx' = pairIdx /\ spc' = "forEach"
    /\ UNCHANGED << bootVars, scanning, monitorVars, status, botCounters, approvalVars,
                    executorCounters, ex, caller, execStarted, execReturned,
                    deliveryCounters >>

ScanPair == ScanPairWith(TRADING_PAIRS, FeeDataResults, {})
\* the same while the network may be congested
ScanPairCongested ==
    ScanPairWith(TRADING_PAIRS, FeeDataResults \cup CongestedFeeData, {})
\* the same over a pair whose traded asset is not the base asset
ScanPairConverted == ScanPairWith(CONVERTED_PAIRS, FeeDataResults, ConversionOutputs)

\* for (const opportunity of opportunities): await callback(opportunity), the
\* callback being handleOpportunity
ScannerCallback ==
    /\ spc = "forEach"
    /\ opportunities # <<>>
    /\ LET opportunity == Head(opportunities)
       IN  /\ opportunities' = Tail(opportunities)
           /\ scanned' = <<>>
           /\ IF opportunity.profitPercent >= config.minProfitThreshold
              THEN /\ HandleOpportunity(opportunity, "scanner")
                   /\ spc' = IF AlreadyExecuting(status) THEN "forEach"
                             ELSE "awaitCallback"
              ELSE UNCHANGED << spc, bootVars, status, botCounters, approvalVars,
                                executorCounters, ex, caller, execStarted,
                                execReturned, deliveryCounters >>
    /\ UNCHANGED << scanning, pairIdx, monitorVars >>

\* catch (error): the cycle's exception is logged, the loop goes on to its sleep
CatchCycle_Rethrows ==
    /\ spc = "caught"
    /\ spc' = "stopped"
    /\ UNCHANGED << bootVars, scanning, pairIdx, opportunities, scanned, monitorVars, status,
                    botCounters, approvalVars, executorCounters, ex, caller,
                    execStarted, execReturned, deliveryCounters >>
CatchCycle ==
    /\ spc = "caught"
    /\ spc' = "sleep"
    /\ UNCHANGED << bootVars, scanning, pairIdx, opportunities, scanned, monitorVars, status,
                    botCounters, approvalVars, executorCounters, ex, caller,
                    execStarted, execReturned, deliveryCounters >>

\* the list is exhausted: await this.sleep(priceCheckIntervalMs)
EndCycle ==
    /\ spc = "forEach"
    /\ opportunities = <<>>
    /\ spc' = "sleep"
    /\ scanned' = <<>>
    /\ UNCHANGED << bootVars, scanning, pairIdx, opportunities, monitorVars, status,
                    botCounters, approvalVars, executorCounters, ex, caller,
                    execStarted, execReturned, deliveryCounters >>

\* the sleep ends
Sleep ==
    /\ spc = "sleep"
    /\ spc' = "loop"
    /\ UNCHANGED << bootVars, scanning, pairIdx, opportunities, scanned, monitorVars, status,
                    botCounters, approvalVars, executorCounters, ex, caller,
                    execStarted, execReturned, deliveryCounters >>

----------------------------------------------------------------------------
(* PriceMonitor.getQuoteV3, one step per fee tier *)

\* everything but the price monitor
botVars ==
    << bootVars, scanning, spc, pairIdx, opportunities, scanned, status,
       botCounters, approvalVars, executorCounters, ex, caller, execStarted,
       execReturned, deliveryCounters >>

\* getQuoteV3 is entered: a cached quote is returned at once, else the tiers
\* are tried from the first
QuoteCall ==
    /\ pm.pc \in {"idle", "done"}
    /\ quoteCalls < MaxQuoteCalls
    /\ quoteCalls' = quoteCalls + 1
    /\ \E req \in QuoteRequests :
         LET cached == CacheLookup(priceCache, CacheKey(req))
         IN  IF cached # None
             THEN pm' = [IdlePm EXCEPT !.pc = "done", !.req = Some(req),
                                       !.hit = cached, !.result = cached]
             ELSE \E chain \in ChainStates :
                    pm' = [IdlePm EXCEPT !.pc = "tier", !.req = Some(req),
                                         !.tier = 1, !.chain = chain]
    /\ UNCHANGED << priceCache, poolCache, botVars >>

\* one iteration of the FEE_TIERS loop; after the last, the best quote is
\* cached when there is one, and returned
ProbeTier ==
    /\ pm.pc = "tier"
    /\ LET answer == pm.chain[pm.tier]
             req == pm.req[1]
             key == PoolCacheKey(req, FEE_TIERS[pm.tier])
             r == getQuoteForFeeTier(req, poolCache[key], answer)
             better == BetterQuote(r.quote, pm.bestAmountOut)
             best == IF better THEN r.quote ELSE pm.bestQuote
             p1 == [pm EXCEPT
                      !.bestQuote = best,
                      !.bestAmountOut = IF better THEN r.quote[1].outputAmount ELSE @,
                      !.bestTier = IF better THEN pm.tier ELSE @,
                      !.lastAnswer = IF r.read THEN answer.kind ELSE "memo",
                      !.tierQuotes = Append(@, r.quote),
                      !.readTiers = IF r.read THEN @ \cup {pm.tier} ELSE @]
         IN  /\ poolCache' = [poolCache EXCEPT ![key] = r.memo]
             /\ IF pm.tier < Len(FEE_TIERS)
                THEN /\ pm' = [p1 EXCEPT !.tier = @ + 1]
                     /\ UNCHANGED priceCache
                ELSE /\ pm' = [p1 EXCEPT !.pc = "done", !.result = best]
                     /\ priceCache' =
                            IF best # None
                            THEN [priceCache EXCEPT ![CacheKey(req)] =
                                      Some([quote |-> best[1], age |-> 0])]
                            ELSE priceCache
    /\ UNCHANGED << quoteCalls, botVars >>

\* getQuoteForFeeTier on a pool that exists and holds liquidity, alone: slot0
\* is read and the quote is derived from its square-root price
QuoteFromPool ==
    /\ pm.pc \in {"idle", "done"}
    /\ \E req \in PoolRequests, sqrtPriceX96 \in SqrtPrices :
         pm' = [IdlePm EXCEPT !.pc = "done", !.req = Some(req),
                              !.sqrtPriceX96 = Some(sqrtPriceX96),
                              !.result = QuoteFromSlot0(req, sqrtPriceX96)]
    /\ UNCHANGED << priceCache, poolCache, quoteCalls, botVars >>

\* a second passes: every cached entry ages, up to the TTL it expires at
Tick ==
    /\ \E k \in CacheKeys : priceCache[k] # None /\ priceCache[k][1].age < TTL
    /\ priceCache' =
          [k \in CacheKeys |->
             IF priceCache[k] # None /\ priceCache[k][1].age < TTL
             THEN Some([priceCache[k][1] EXCEPT !.age = @ + 1])
             ELSE priceCache[k]]
    /\ UNCHANGED << poolCache, pm, quoteCalls, botVars >>

\* stopScanning(): the flag the while loop tests is cleared
StopScanning ==
    /\ spc \notin {"init", "exited"}
    /\ scanning
    /\ scanning' = FALSE
    /\ UNCHANGED << bootVars, spc, pairIdx, opportunities, scanned, monitorVars, status,
                    botCounters, approvalVars, executorCounters, ex, caller,
                    execStarted, execReturned, deliveryCounters >>

\* the SIGINT / SIGTERM handler: stopScanning(), the session summary, then
\* process.exit(0), which ends every pending call with the process
Shutdown ==
    /\ spc \notin {"init", "exited", "stopped"}
    /\ scanning' = FALSE
    /\ spc' = "exited"
    /\ ex' = IdleEx
    /\ caller' = "none"
    /\ UNCHANGED << bootVars, pairIdx, opportunities, scanned, monitorVars, status,
                    botCounters, approvalVars, executorCounters,
                    execStarted, execReturned, deliveryCounters >>

----------------------------------------------------------------------------
(* Specifications *)

\* the steps of a running executeArbitrage call
ExecutorNext ==
    \/ ExecValidate
    \/ TradeBalanceBefore
    \/ TradeAllowance
    \/ TradeApproveSend
    \/ TradeApproveWait
    \/ TradeFeeTier
    \/ TradeSend
    \/ TradeWait
    \/ ExecSleep
    \/ ExecSettle

\* the program: the scanner drives the coordinator, which drives the executor
Next ==
    \/ Start
    \/ LoopTest
    \/ ScanPair
    \/ ScannerCallback
    \/ CatchCycle
    \/ EndCycle
    \/ Sleep
    \/ HandleResult
    \/ ExecutorNext
    \/ Shutdown

Spec == Init /\ [][Next]_vars

\* the program on a network whose gas price may rise above the configured
\* maximum of 1 gwei (a maximum that parses: no cycle throws)
NextGas ==
    \/ Start
    \/ LoopTest
    \/ ScanPairCongested
    \/ ScannerCallback
    \/ EndCycle
    \/ Sleep
    \/ HandleResult
    \/ ExecutorNext
    \/ Shutdown

\* the program over that pair list, for both thresholds
NextConverted ==
    \/ Start
    \/ LoopTest
    \/ ScanPairConverted
    \/ ScannerCallback
    \/ EndCycle
    \/ Sleep
    \/ HandleResult
    \/ ExecutorNext
    \/ Shutdown

InitConverted == Init /\ config.maxGasPriceGwei = 1

SpecConverted == InitConverted /\ [][NextConverted]_vars

InitGas == Init /\ config.minProfitThreshold = 100 /\ config.maxGasPriceGwei = 1

SpecGas == InitGas /\ [][NextGas]_vars

\* The scanning loop with its stop flag also cleared by a bare stopScanning()
\* call.  Every awaited call of the loop, of the coordinator and of the executor
\* eventually resolves (timers fire, chain calls return); signals and
\* stopScanning() calls are not bound to happen.
NextLive ==
    \/ Next
    \/ StopScanning

\* the steps the program takes by itself once the loop runs; at most one
\* awaited call is pending at a time, so weak fairness of their disjunction
\* says that the pending call resolves
LoopSteps ==
    \/ LoopTest
    \/ ScanPair
    \/ ScannerCallback
    \/ CatchCycle
    \/ EndCycle
    \/ Sleep
    \/ HandleResult
    \/ ExecutorNext

Fairness == WF_vars(LoopSteps)

\* the loop's progress does not depend on the threshold, and only a gas price
\* setting that cannot be parsed lets a cycle throw: one value of each is enough
InitLive ==
    Init /\ config.minProfitThreshold = 100 /\ config.maxGasPriceGwei = Unparsable

SpecLive == InitLive /\ [][NextLive]_vars /\ Fairness

\* handleOpportunity is a callback.  In SpecOpen the started bot's coordinator
\* and executor run against an arbitrary caller in place of the scanning loop:
\* it delivers any opportunity a scan could have built, at any moment, and does
\* not wait for the call to return.  Every order in which callbacks can arrive,
\* the scanner's included, is one of its behaviours.
Deliver ==
    /\ spc # "init"
    /\ spc # "exited"
    /\ delivered < MaxDeliveries
    /\ \E p \in 1..Len(TRADING_PAIRS), c \in Candidates(Len(DEXES)),
          ra \in QuoteAnswers(ReverseOutputs), fd \in FeeDataResults :
         \E fo \in ForwardOutputs(TRADING_PAIRS[p].tokenB) :
           LET buy == [dexName |-> DEXES[c[1]],
                       quote |-> Quote(DEXES[c[1]], config.tradeAmount, fo)]
               made == EvaluateCandidate(TRADING_PAIRS[p], config.tradeAmount, buy,
                                         DEXES[c[2]], ra, fd, None, config)
           IN  /\ ~estimateGasCostThrows(fd, config.maxGasPriceGwei)
               /\ made # <<>>
               /\ HandleOpportunity(made[1], "other")
    /\ UNCHANGED scannerVars

NextOpen ==
    \/ Start
    \/ Deliver
    \/ HandleResult
    \/ ExecutorNext

SpecOpen == Init /\ [][NextOpen]_vars

\* the same, with opportunities the scanner would not emit as well: the caller
\* may claim a profit percentage of its own
DeliverClaimed ==
    /\ spc # "init"
    /\ spc # "exited"
    /\ delivered < MaxDeliveries
    /\ \E p \in 1..Len(TRADING_PAIRS), c \in Candidates(Len(DEXES)),
          ra \in QuoteAnswers(ReverseOutputs), fd \in FeeDataResults,
          claim \in {None} \cup { Some(c) : c \in ClaimedPercents } :
         \E fo \in ForwardOutputs(TRADING_PAIRS[p].tokenB) :
           LET buy == [dexName |-> DEXES[c[1]],
                       quote |-> Quote(DEXES[c[1]], config.tradeAmount, fo)]
               made == EvaluateCandidate(TRADING_PAIRS[p], config.tradeAmount, buy,
                                         DEXES[c[2]], ra, fd, None, config)
           IN  /\ ~estimateGasCostThrows(fd, config.maxGasPriceGwei)
               /\ made # <<>>
               /\ HandleOpportunity(IF claim = None THEN made[1]
                                     ELSE [made[1] EXCEPT !.profitPercent = claim[1]],
                                     "other")
    /\ UNCHANGED scannerVars

NextExec ==
    \/ Start
    \/ DeliverClaimed
    \/ HandleResult
    \/ ExecutorNext

\* the executor does not read the configuration: one setting is enough, the
\* one with which every candidate passes the threshold
InitExec == Init /\ config.minProfitThreshold = 0 /\ config.maxGasPriceGwei = 1

SpecExec == InitExec /\ [][NextExec]_vars

\* opportunities whose quoted outputs the slippage factors do not divide
DeliverUneven ==
    /\ spc # "init"
    /\ spc # "exited"
    /\ delivered < MaxDeliveries
    /\ \E p \in 1..Len(TRADING_PAIRS), c \in Candidates(Len(DEXES)),
          ro \in UnevenReverseOutputs, fo \in UnevenForwardOutputs :
         LET buy == [dexName |-> DEXES[c[1]],
                     quote |-> Quote(DEXES[c[1]], config.tradeAmount, fo)]
             made == EvaluateCandidate(TRADING_PAIRS[p], config.tradeAmount, buy,
                                       DEXES[c[2]], Some(ro), Ok(1), None, config)
         IN  /\ made # <<>>
             /\ HandleOpportunity(made[1], "other")
    /\ UNCHANGED scannerVars

NextSlippage ==
    \/ Start
    \/ DeliverUneven
    \/ HandleResult
    \/ ExecutorNext

SpecSlippage == InitExec /\ [][NextSlippage]_vars

\* one forward quote of the price monitor, and the executions of the
\* opportunity whose buy side is that quote, on the chain the quote saw
QuoteCallOnce ==
    /\ quoteCalls = 0
    /\ QuoteCall
OtherDex(dexName) == IF dexName = "UNISWAP_V3" THEN "PANCAKESWAP_V3" ELSE "UNISWAP_V3"
QuotedPair == [tokenA |-> "WETH", tokenB |-> "DAI"]
DeliverQuoted ==
    /\ spc # "init"
    /\ spc # "exited"
    /\ delivered < MaxDeliveries
    /\ pm.pc = "done" /\ pm.result # None
    /\ pm.req[1].amountIn = config.tradeAmount
    /\ \E ro \in {1030000} :
         LET buy == [dexName |-> pm.req[1].dexName, quote |-> pm.result[1]]
             made == EvaluateCandidate(QuotedPair, config.tradeAmount, buy,
                                       OtherDex(pm.req[1].dexName), Some(ro), Ok(1),
                                       None, config)
         IN  /\ made # <<>>
             /\ HandleOpportunity(made[1], "other")
    /\ UNCHANGED scannerVars

NextTier ==
    \/ Start
    \/ QuoteCallOnce
    \/ ProbeTier
    \/ DeliverQuoted
    \/ HandleResult
    \/ ExecValidate
    \/ TradeBalanceBefore
    \/ TradeAllowance
    \/ TradeApproveSend
    \/ TradeApproveWait
    \/ TradeFeeTierQuoted
    \/ TradeSend
    \/ TradeWait
    \/ ExecSleep
    \/ ExecSettle

SpecTier == InitExec /\ [][NextTier]_vars

\* the price monitor alone, under any sequence of quote requests and any
\* passage of time between its steps
NextQuote ==
    \/ QuoteCall
    \/ ProbeTier
    \/ Tick

InitQuote == Init /\ config.minProfitThreshold = 100 /\ config.maxGasPriceGwei = 1

SpecQuote == InitQuote /\ [][NextQuote]_vars

\* the derivation of a quote from a pool's price, alone
NextPool == QuoteFromPool

SpecPool == InitQuote /\ [][NextPool]_vars

----------------------------------------------------------------------------
(* Properties *)

Range(seq) == { seq[k] : k \in 1..Len(seq) }

\* executeArbitrage invocations started and not yet returned
InFlight == execStarted - execReturned

Returned == ex.pc = "returned"
Result == ex.result[1]

\* C1: at most one executeArbitrage invocation is in progress at any time,
\* whoever delivers opportunities and however the deliveries interleave.
C1_AtMostOneExecution == InFlight <= 1

\* an execution is in progress after another delivery has been turned away
C1_Witness ==
    /\ InFlight = 1
    /\ dropped = 1
    /\ ex.pc \notin {"idle", "returned"}

\* C2: an opportunity delivered while an execution is in progress is dropped:
\* executeArbitrage is not called for it, the running activation and every
\* field of the bot are left as they were (nothing is queued, so nothing can be
\* retried), no TradeResult is produced for it, and every delivery is either
\* executed or dropped.
C2_DroppedWhileExecuting ==
    /\ [][ (delivered' = delivered + 1 /\ InFlight = 1) =>
             /\ dropped' = dropped + 1
             /\ execStarted' = execStarted
             /\ execReturned' = execReturned
             /\ ex' = ex
             /\ \/ opportunities' = opportunities
                \/ opportunities # <<>> /\ opportunities' = Tail(opportunities)
             /\ UNCHANGED << status, caller, botCounters, approvalVars,
                             executorCounters >> ]_vars
    /\ [](execReturned <= execStarted /\ delivered = execStarted + dropped)

\* a delivery was dropped during the only execution started, which has gone on
\* to its sell leg
C2_Witness ==
    /\ dropped = 1
    /\ execStarted = 1
    /\ execReturned = 0
    /\ ex.leg = "SELL"

\* C3: the scanning loop never waits for an execution to finish.
C3_ScannerNeverWaits == ~(spc = "awaitCallback" /\ InFlight = 1)

\* C4: the sell-leg transaction is submitted only after the buy-leg transaction
\* was confirmed and the settlement balance read was made, and after the buy.
C4_LegsNeverPipelined ==
    "SELL" \in Range(ex.txs) =>
        /\ ex.buyReceipt = "ok"
        /\ ex.settlementRead
        /\ \E i, j \in 1..Len(ex.txs) :
             i < j /\ ex.txs[i] = "BUY" /\ ex.txs[j] = "SELL"

C4_Witness == "SELL" \in Range(ex.txs) /\ ex.pc = "wait"

\* C5: no execution ends with the buy leg confirmed and the sell leg not.
C5_AtomicSettlement ==
    Returned => ((ex.buyReceipt = "ok") <=> (ex.sellReceipt = "ok"))

\* C6: a buy leg whose receipt has status 0, or has no receipt, is a hard
\* failure: executeArbitrage returns success = false and submits no sell.
C6_BuyRevertIsHardFailure ==
    ex.buyReceipt \in {"reverted", "null"} =>
        /\ Returned
        /\ ~Result.success
        /\ "SELL" \notin Range(ex.txs)

C6_Witness == ex.buyReceipt = "reverted" /\ Returned /\ Range(ex.txs) = {"BUY"}

\* C7: when the buy leg is confirmed and balanceAfter - balanceBefore = 0, the
\* execution fails with 'No tokens received from buy trade' and no sell is
\* submitted.
C7_NoTokensReceived ==
    (ex.buyReceipt = "ok" /\ ex.received = Some(0)) =>
        /\ Returned
        /\ ~Result.success
        /\ Result.error = <<"No tokens received from buy trade">>
        /\ "SELL" \notin Range(ex.txs)

C7_Witness == ex.buyReceipt = "ok" /\ ex.received = Some(0) /\ Returned

\* C8: when the sell leg reverts after the buy leg was confirmed,
\* executeArbitrage returns success = false and the sell is the last
\* transaction it submitted (nothing unwinds the buy).
C8_SellRevertLeavesBuy ==
    (ex.buyReceipt = "ok" /\ ex.sellReceipt \in {"reverted", "throw"}) =>
        /\ Returned
        /\ ~Result.success
        /\ ex.txs[Len(ex.txs)] = "SELL"
        /\ Cardinality({ k \in 1..Len(ex.txs) : ex.txs[k] \in {"BUY", "SELL"} }) = 2

C8_Witness == ex.buyReceipt = "ok" /\ ex.sellReceipt = "reverted" /\ Returned

\* C9: the executor's counters change only in the step in which an execution
\* completes both legs, the trade counter then grows by exactly 1; an execution
\* that fails returns with both counters as they were when it started.
C9_CountersOnlyOnSuccess ==
    /\ [][ (executedTrades' # executedTrades \/ totalProfit' # totalProfit) =>
             /\ ex'.pc = "returned"
             /\ ex'.result[1].success
             /\ ex'.buyReceipt = "ok"
             /\ ex'.sellReceipt = "ok"
             /\ executedTrades' = executedTrades + 1 ]_vars
    /\ [](Returned =>
            IF Result.success
            THEN executedTrades = ex.tradesAtStart + 1
            ELSE /\ executedTrades = ex.tradesAtStart
                 /\ totalProfit = ex.profitAtStart)

\* after a completed trade, a second execution fails at its sell leg
C9_Witness ==
    /\ Returned
    /\ ~Result.success
    /\ ex.buyReceipt = "ok"
    /\ executedTrades = 1

\* C10: no opportunity a scan cycle emits has netProfitPercent <= 0 or
\* netProfitPercent >= the sanity ceiling.
C10_EmittedProfitInRange ==
    \A k \in 1..Len(opportunities) :
        /\ opportunities[k].profitPercent > 0
        /\ opportunities[k].profitPercent < SanityCeiling

\* netProfitPercent of a scanned candidate, as lines 96-116 compute it
CandidateNetPercent(f) ==
    LET profitAmount == IF f.reverseOut > f.amountIn THEN f.reverseOut - f.amountIn ELSE 0
        netProfit == IF profitAmount > f.gasCost THEN profitAmount - f.gasCost ELSE 0
    IN  PercentOf(netProfit, f.amountIn)

\* the opportunities at the end of the list are the given candidates, in order
EmittedLast(passing) ==
    /\ Len(passing) <= Len(opportunities)
    /\ \A k \in 1..Len(passing) :
         LET o == opportunities[Len(opportunities) - Len(passing) + k]
         IN  /\ o.buyDEX = passing[k].buyDEX
             /\ o.sellDEX = passing[k].sellDEX
             /\ o.buyQuote.outputAmount = passing[k].buyOut
             /\ o.sellQuote.outputAmount = passing[k].reverseOut
             /\ o.profitPercent = CandidateNetPercent(passing[k])

\* C11 (as amended): an opportunity is in a cycle's list only if its
\* netProfitPercent is at least the configured threshold and both quotes'
\* outputs are positive; every candidate whose reverse output exceeds the
\* original input and whose netProfitPercent is at least the threshold and
\* below the sanity ceiling is put in the list, duplicates included, and every
\* opportunity of the list is handed to the callback, in order.
C11_EmissionFilter ==
    /\ [](\A k \in 1..Len(opportunities) :
            /\ opportunities[k].profitPercent >= config.minProfitThreshold
            /\ opportunities[k].buyQuote.outputAmount > 0
            /\ opportunities[k].sellQuote.outputAmount > 0)
    /\ [](LET Passes(f) == /\ f.reverseOut > f.amountIn
                           /\ CandidateNetPercent(f) >= config.minProfitThreshold
                           /\ CandidateNetPercent(f) < SanityCeiling
                           /\ f.reverseOut > 0
                           /\ f.buyOut > 0
          IN  EmittedLast(SelectSeq(scanned, Passes)))
    /\ [][ (spc = "forEach" /\ opportunities' # opportunities) =>
             /\ opportunities' = Tail(opportunities)
             /\ delivered' = delivered + 1
             /\ (ex' # ex => ex'.opp = Some(Head(opportunities))) ]_vars

\* both directions of one pair pass the filter in the same cycle and both are
\* in the list
C11_Witness ==
    /\ Len(scanned) = 2
    /\ Len(opportunities) = 2
    /\ opportunities[1].tokenB = opportunities[2].tokenB
    /\ \A k \in 1..2 : CandidateNetPercent(scanned[k]) >= config.minProfitThreshold

\* C11 (as stated): every candidate whose netProfitPercent is at least the
\* threshold and whose two output amounts are positive is in the list.
C11_AsStated ==
    LET Passes(f) == /\ CandidateNetPercent(f) >= config.minProfitThreshold
                     /\ f.reverseOut > 0
                     /\ f.buyOut > 0
    IN  EmittedLast(SelectSeq(scanned, Passes))

\* C12: the reverse quote of every candidate is requested with the forward
\* quote's output amount as its input, and every opportunity built (listed or
\* executing) has sellQuote.inputAmount = buyQuote.outputAmount.
C12_ReverseInputIsForwardOutput ==
    /\ \A k \in 1..Len(scanned) : scanned[k].reverseIn = scanned[k].buyOut
    /\ \A k \in 1..Len(opportunities) :
         opportunities[k].sellQuote.inputAmount = opportunities[k].buyQuote.outputAmount
    /\ ex.opp # None => ex.opp[1].sellQuote.inputAmount = ex.opp[1].buyQuote.outputAmount

\* a candidate got a reverse quote for an input that differs from the original
\* input, and became an opportunity
C12_Witness ==
    /\ opportunities # <<>>
    /\ \E k \in 1..Len(scanned) :
         /\ scanned[k].quoted
         /\ scanned[k].buyOut # scanned[k].amountIn

\* C13: every listed opportunity has netProfit = max(0, reverseOutput -
\* originalInput) - estimatedGasCost and netProfitPercent = that netProfit as a
\* percentage of the original input.
C13_ProfitFormula ==
    \A k \in 1..Len(opportunities) :
        LET o == opportunities[k]
            originalInput == o.buyQuote.inputAmount
            profitAmount == IF o.sellQuote.outputAmount > originalInput
                            THEN o.sellQuote.outputAmount - originalInput ELSE 0
        IN  /\ o.netProfit = profitAmount - o.estimatedGasCost
            /\ o.profitPercent = PercentOf(o.netProfit, originalInput)


\* C14: the loop leaves its while only with the flag cleared; a cycle that
\* throws is caught; every cycle reaches the loop's sleep (unless the process
\* is ended by a signal), and every sleep is followed by a new cycle unless a
\* stop was requested.
C14_LoopSurvivesFailures ==
    /\ [][ (spc' = "stopped" /\ spc # "stopped") => ~scanning ]_vars
    /\ [][ spc = "caught" => spc' \in {"caught", "sleep", "exited"} ]_vars
    /\ (spc \in {"scan", "caught", "forEach", "awaitCallback"})
          ~> (spc \in {"sleep", "exited"})
    /\ (spc = "sleep") ~> (spc = "scan" \/ ~scanning)

\* a scan cycle has thrown and the loop has caught it, no stop being requested
C14_Witness == spc = "caught" /\ scanning

\* C15: the loop returns only with the flag cleared by stopScanning(); once it
\* is cleared no new cycle starts, and the loop returns after its current
\* cycle (or the process has exited).
C15_StopsOnlyAndSurelyOnStop ==
    /\ [][ (spc' = "stopped" /\ spc # "stopped") => ~scanning ]_vars
    /\ [][ (~scanning /\ spc' = "scan") => spc = "scan" ]_vars
    /\ [][ (spc # "init" /\ ~scanning) => ~scanning' ]_vars
    /\ (spc \notin {"init", "exited"} /\ ~scanning) ~> (spc \in {"stopped", "exited"})

\* startScanning has returned after a stop requested during an execution
C15_Witness == spc = "stopped" /\ execReturned = 1 /\ ~scanning

----------------------------------------------------------------------------
(* PriceMonitor properties, under SpecQuote *)

\* a tier yields a quote when its pool's price gives a positive output
TierYields(answer) == answer.kind = "price" /\ answer.out > 0
ProbedTiers == 1..Len(pm.tierQuotes)

\* C16: getQuoteV3 never throws to its caller. Whatever the tiers answer (no
\* pool, no liquidity, a failed read, an output of exactly zero), each tier
\* gives null or a quote with a positive output, the call goes on to return,
\* it returns null when no tier yields a positive output, and a quote it
\* returns has outputAmount > 0.
C16_QuoteNeverThrows ==
    /\ pm.pc \in {"idle", "tier", "done"}
    /\ \A t \in ProbedTiers :
          /\ pm.tierQuotes[t] # None => pm.tierQuotes[t][1].outputAmount > 0
          /\ ~TierYields(pm.chain[t]) => pm.tierQuotes[t] = None
    /\ pm.pc = "done" =>
          /\ pm.result # None => pm.result[1].outputAmount > 0
          /\ (pm.hit = None /\ \A t \in ProbedTiers : ~TierYields(pm.chain[t]))
                => pm.result = None
C16_Witness ==
    /\ pm.pc = "done" /\ pm.hit = None /\ pm.result = None
    /\ pm.readTiers = 1..Len(FEE_TIERS)
    /\ \E t \in ProbedTiers : pm.chain[t].kind = "readThrew"
    /\ \E t \in ProbedTiers : pm.chain[t].kind = "noLiquidity"

\* the tiers that gave a quote in the running call, and what they gave
YieldingTiers == { t \in ProbedTiers : pm.tierQuotes[t] # None }
TierOut(t) == pm.tierQuotes[t][1].outputAmount

\* C17: over the FEE_TIERS order, the quote kept (and in the end returned) is
\* that of the tier with the largest output amount, and among tiers with the
\* same largest output the one probed first.
C17_LargestOutputFirstSeen ==
    (pm.hit = None /\ YieldingTiers # {}) =>
        /\ pm.bestTier \in YieldingTiers
        /\ pm.bestQuote = pm.tierQuotes[pm.bestTier]
        /\ pm.bestAmountOut = TierOut(pm.bestTier)
        /\ \A t \in YieldingTiers :
              /\ TierOut(t) <= TierOut(pm.bestTier)
              /\ TierOut(t) = TierOut(pm.bestTier) => pm.bestTier <= t
        /\ pm.pc = "done" => pm.result = pm.bestQuote
C17_Witness ==
    /\ pm.pc = "done" /\ pm.hit = None /\ pm.result # None
    /\ \E t \in YieldingTiers :
          t > pm.bestTier /\ TierOut(t) = pm.result[1].outputAmount
    /\ \E t \in YieldingTiers :
          t < pm.bestTier /\ TierOut(t) < pm.result[1].outputAmount

\* the pool key of the tier the running call is about to probe, and whether
\* this step is that probe
ProbedPoolKey == PoolCacheKey(pm.req[1], FEE_TIERS[pm.tier])
ProbeStep == pm.pc = "tier" /\ pm' # pm

\* C18: a lookup that finds no pool, or a pool with zero liquidity, records
\* the pool key as negative; a negative entry stays negative for as long as
\* the process runs; and a later quote skips a tier whose entry is negative
\* without reading the chain for it.
C18_NegativePoolMemo ==
    /\ [][ \A k \in PoolCacheKeys : poolCache[k] = "no" => poolCache'[k] = "no" ]_vars
    /\ [][ (ProbeStep /\ poolCache[ProbedPoolKey] # "no"
               /\ pm.chain[pm.tier].kind \in {"noPool", "noLiquidity"})
            => (poolCache'[ProbedPoolKey] = "no" /\ pm.tier \in pm'.readTiers) ]_vars
    /\ [][ (ProbeStep /\ poolCache[ProbedPoolKey] = "no")
            => /\ pm'.readTiers = pm.readTiers
               /\ pm'.lastAnswer = "memo"
               /\ pm'.tierQuotes = Append(pm.tierQuotes, None)
               /\ pm'.bestQuote = pm.bestQuote ]_vars
C18_Witness ==
    /\ pm.pc = "done" /\ pm.hit = None
    /\ \E t \in ProbedTiers :
          /\ t \notin pm.readTiers
          /\ TierYields(pm.chain[t])
          /\ poolCache[PoolCacheKey(pm.req[1], FEE_TIERS[t])] = "no"

\* an entry of the quote cache that has not outlived the TTL
Live(entry) == entry # None /\ entry[1].age < TTL
\* this step enters getQuoteV3; the cache key of the call it enters
CallStep == quoteCalls' # quoteCalls
CalledKey == CacheKey(pm'.req[1])
\* this step is the return of a call that read the chain
ReturnStep == ProbeStep /\ pm'.pc = "done"

\* C19: a quote that was found is cached under (venue, tokenIn symbol,
\* tokenOut symbol, amountIn). A call with that key made while the entry is
\* younger than the TTL of 3 s returns the cached quote and reads nothing;
\* nothing but the passing of the TTL takes a live entry away or changes its
\* quote; the first call after expiry probes the tiers again and caches what
\* it finds afresh; and a call that finds no quote leaves the cache as it was.
C19_QuoteCache ==
    /\ [][ (CallStep /\ Live(priceCache[CalledKey]))
            => /\ pm'.pc = "done"
               /\ pm'.result = Some(priceCache[CalledKey][1].quote)
               /\ pm'.hit = pm'.result
               /\ pm'.readTiers = {} /\ pm'.tierQuotes = <<>>
               /\ UNCHANGED << priceCache, poolCache >> ]_vars
    /\ [][ \A k \in CacheKeys :
              Live(priceCache[k])
              => /\ priceCache'[k] # None
                 /\ priceCache'[k][1].quote = priceCache[k][1].quote
                 /\ priceCache'[k][1].age \in {priceCache[k][1].age, priceCache[k][1].age + 1} ]_vars
    /\ [][ (CallStep /\ ~Live(priceCache[CalledKey]))
            => (pm'.pc = "tier" /\ pm'.hit = None /\ pm'.tier = 1) ]_vars
    /\ [][ ReturnStep
            => IF pm'.result # None
               THEN priceCache' = [priceCache EXCEPT ![CacheKey(pm.req[1])] =
                                      Some([quote |-> pm'.result[1], age |-> 0])]
               ELSE priceCache' = priceCache ]_vars
C19_Witness ==
    /\ pm.pc = "done" /\ pm.hit # None
    /\ priceCache[CacheKey(pm.req[1])][1].age = TTL - 1
    /\ quoteCalls = 2

----------------------------------------------------------------------------
(* TradeExecutor.ensureApproval properties *)

\* the approval step of the running leg, and the steps of it
LegApprovalKey == ApprovalKey(LegTokenIn, LegDex)
InApprovalStep == ex.pc \in {"allowance", "approveSend", "approveWait"}
ApproveSubmitted == ex.pc = "approveSend" /\ ex'.pc = "approveWait"
ApproveConfirmed == approvals' # approvals

KeyRecorded == approvedTokens' # approvedTokens
\* the running leg goes on from its approval step to its swap
LegGoesOn == InApprovalStep /\ ex'.pc = "feeTier"
\* the running leg ends in its approval step: the allowance read, the approve
\* call or its wait threw
ApprovalStepFailed == InApprovalStep /\ ex' # ex /\ ~InApprovalStep' /\ ~LegGoesOn

\* C32: the approval records are append-only and every swap is preceded by a
\* successful approval step: a key is never removed; the running leg's key is
\* added only when the allowance read covered the leg's amount or the approve
\* transaction was confirmed, and the leg goes on to its swap only with its
\* key recorded; a leg whose allowance read or approve transaction failed
\* fails without a swap, the records unchanged.
C32_ApprovalPrecedesSwap ==
    /\ [][approvedTokens \subseteq approvedTokens']_vars
    /\ [][KeyRecorded
            => /\ approvedTokens' = approvedTokens \cup {LegApprovalKey}
               /\ LegGoesOn
               /\ \/ ex.pc = "allowance"
                  \/ ex.pc = "approveWait" /\ ApproveConfirmed]_vars
    /\ [][LegGoesOn => LegApprovalKey \in approvedTokens']_vars
    /\ [](ex.pc \in {"feeTier", "send", "wait"} => LegApprovalKey \in approvedTokens)
    /\ [][ApprovalStepFailed
            => /\ ex'.pc = "returned" /\ ~ex'.result[1].success
               /\ ex'.txs = ex.txs
               /\ UNCHANGED approvalVars]_vars
C32_Witness ==
    /\ ex.pc = "send" /\ ex.leg = "SELL"
    /\ Cardinality(approvedTokens) = 2
    /\ approvals # {} /\ approvals # approvedTokens
    /\ LegApprovalKey \notin approvals

----------------------------------------------------------------------------
(* TradeExecutor.findBestFeeTier properties *)

\* the leg's swap is encoded and about to be sent
SwapEncoded == ex.pc = "send"
\* the tiers of the leg's venue whose pool lookup gave a pool
ResolvedTiers == { i \in 1..Len(FeeTiersOf(LegDex)) : ex.probes[i] = "pool" }
FallbackTier == IF LegDex = "PANCAKESWAP_V3" THEN 500 ELSE 3000

\* C33: the fee tier of a leg's swap is the first tier, in the order of the
\* venue's list, whose pool lookup resolved, a lookup that threw or gave the
\* zero address passing on to the next tier; when none resolved it is the
\* venue's fallback, 500 on PancakeSwap V3 and 3000 elsewhere.
C33_FirstResolvedTier ==
    SwapEncoded =>
        /\ \A i \in ResolvedTiers :
              (\A j \in ResolvedTiers : i <= j) => ex.fee = FeeTiersOf(LegDex)[i]
        /\ ResolvedTiers = {} => ex.fee = FallbackTier
C33_Witness ==
    /\ SwapEncoded /\ ex.leg = "SELL"
    /\ LegDex = "PANCAKESWAP_V3"
    /\ ex.probes = <<"throw", "throw", "pool", "zero">>
    /\ ex.fee = 2500

\* the fee tier of the pool the buy quote came from
QuotedTier == FEE_TIERS[pm.bestTier]

\* C35, under SpecTier: the fee tier a leg's swap is submitted with is the
\* fee tier of the pool that produced the leg's quote, whichever pools of the
\* venue exist.
C35_SwapTierIsQuotedTier ==
    (SwapEncoded /\ ex.leg = "BUY") => ex.fee = QuotedTier

----------------------------------------------------------------------------
(* TradeExecutor.executeArbitrage properties, under SpecExec *)

ValidationPassed ==
    ex.inputBalance # None /\ ex.inputBalance[1] >= Opp.buyQuote.inputAmount
ValidationStep == ex.pc = "validate" /\ ex' # ex

\* C21: validation precedes every transaction. A transaction (approve or
\* swap) is submitted only after the balance of the input asset was read and
\* found to cover the quoted input; when it does not, executeArbitrage
\* returns the explicit insufficient-balance failure with no transaction
\* submitted; and a claimed profit percentage above the sanity bound only sets
\* off the warning: with enough balance the execution goes on to the buy leg.
C21_ValidationPrecedesTransactions ==
    /\ [](ex.pc # "idle" /\ ex.txs # <<>> => ValidationPassed)
    /\ []((ex.pc # "idle" /\ ex.inputBalance # None /\ ~ValidationPassed)
            => /\ Returned
               /\ ~ex.result[1].success
               /\ ex.result[1].error = <<"Insufficient WETH">>
               /\ ex.txs = <<>>)
    /\ [][(ValidationStep /\ ex'.inputBalance # None
              /\ ex'.inputBalance[1] >= Opp.buyQuote.inputAmount)
            => /\ ex'.pc = "balanceBefore" /\ ex'.leg = "BUY"
               /\ ex'.warned = (Opp.profitPercent > HighProfitPercent)]_vars
C21_Witness ==
    /\ Returned
    /\ ex.inputBalance # None /\ ~ValidationPassed
    /\ ex.result[1].error = <<"Insufficient WETH">>
    /\ Opp.profitPercent > HighProfitPercent

\* an activation is between its entry and its return
Running == ex.pc \notin {"idle", "returned"}
\* every step of the two legs and of the settlement went well
AllStepsSucceeded ==
    /\ ValidationPassed
    /\ ex.buyReceipt = "ok" /\ ex.sellReceipt = "ok"
    /\ ex.settlementRead /\ ex.received # None /\ ex.received # Some(0)

\* C24: executeArbitrage never throws and reports exactly once per
\* opportunity: each invocation ends by returning one TradeResult (the count
\* of results follows the count of invocations, one result per activation);
\* a result after any failed step has success = false and a non-empty error
\* cause; a successful result carries the sell leg's transaction id, the
\* profit and the gas consumed.
C24_ExactlyOneResult ==
    /\ [](execStarted = execReturned + (IF Running THEN 1 ELSE 0))
    /\ [](Returned =>
            LET r == ex.result[1]
            IN  /\ r.success <=> AllStepsSucceeded
                /\ ~r.success => /\ r.error # <<>>
                                 /\ \A k \in 1..Len(r.error) : r.error[k] # ""
                /\ r.success => /\ r.txHash = ex.sellResult.txHash
                                /\ r.txHash = Len(ex.txs)
                                /\ ex.txs[r.txHash] = "SELL"
                                /\ r.gasUsed = GasOrZero(ex.buyResult)
                                                  + GasOrZero(ex.sellResult)
                                /\ r.profit = Opp.netProfit - r.gasUsed)
    /\ [][(execReturned' # execReturned)
            => /\ Running /\ ex'.pc = "returned" /\ ex'.result # None
               /\ execReturned' = execReturned + 1]_vars
    /\ [][(Running /\ ~Running') => (ex'.pc = "returned" \/ spc' = "exited")]_vars
C24_Witness ==
    /\ Returned
    /\ ex.result[1].success
    /\ ex.txs[ex.result[1].txHash] = "SELL"
    /\ execReturned = execStarted

\* the output quoted for the running leg: the buy quote's, or the reverse
\* quote's
QuotedOutput ==
    IF ex.leg = "BUY" THEN Opp.buyQuote.outputAmount ELSE Opp.sellQuote.outputAmount
\* the swap of the running leg is encoded or submitted
SwapBounded == ex.pc \in {"send", "wait"}

\* C25: every swap is slippage-bounded: the swap is submitted with
\* minAmountOut = quoted - floor(quoted * bps / 10000), bps = 200 for the buy
\* leg and 500 for the sell leg, which is at most the quoted output and at
\* least 98% (buy) or 95% (sell) of it.
C25_SlippageBounded ==
    SwapBounded =>
        LET bps == IF ex.leg = "BUY" THEN 200 ELSE 500
            pct == IF ex.leg = "BUY" THEN 98 ELSE 95
        IN  /\ ex.minAmountOut = QuotedOutput - ((QuotedOutput * bps) \div 10000)
            /\ ex.minAmountOut <= QuotedOutput
            /\ ex.minAmountOut * 100 >= QuotedOutput * pct
C25_Witness ==
    /\ ex.pc = "wait"
    /\ ex.leg = "SELL"
    /\ (QuotedOutput * 500) % 10000 # 0
    /\ ex.minAmountOut = 978547

\* the sell leg is running
InSellLeg == ex.leg = "SELL"
\* balanceAfter - balanceBefore, as the settlement read found it
Received == ex.received[1]

SellSubmitted == InSellLeg /\ ex.pc = "wait"

\* C34: the sell leg is never submitted with a zero or negative input amount:
\* whatever balance difference the settlement read found, if the execution
\* went on, the amount of the sell swap is strictly positive.
C34_SellInputPositive ==
    SellSubmitted => ex.amountIn > 0

\* the sums of a confirmed buy receipt's and a confirmed sell receipt's cost
ReceiptGasSums ==
    { b + g : b \in SwapGasCosts("BUY"), g \in SwapGasCosts("SELL") }

\* C27: on successful completion the reported profit, which is also the
\* amount added to the executor's cumulative profit, is the opportunity's
\* estimated net profit minus the two receipts' gas cost, whatever was
\* received; the reported gas is that sum.
C27_ReportedProfit ==
    (Returned /\ ex.result[1].success) =>
        LET r == ex.result[1]
        IN  /\ r.gasUsed \in ReceiptGasSums
            /\ r.gasUsed = ex.buyResult.gasUsed[1] + ex.sellResult.gasUsed[1]
            /\ r.profit = Opp.netProfit - r.gasUsed
            /\ totalProfit = ex.profitAtStart + r.profit
C27_Witness ==
    /\ Returned /\ ex.result[1].success
    /\ ex.received = Some(1)
    /\ ex.result[1].gasUsed = 500
    /\ ex.result[1].profit = Opp.netProfit - 500
    /\ totalProfit = ex.profitAtStart + ex.result[1].profit

----------------------------------------------------------------------------
(* Gas price properties *)

\* the candidate was put in the list: it passed the filter of lines 119-122
Listed(f) ==
    /\ f.reverseOut > f.amountIn
    /\ CandidateNetPercent(f) >= config.minProfitThreshold
    /\ CandidateNetPercent(f) < SanityCeiling
    /\ f.buyOut > 0
\* the network's gas price, as getFeeData gave it for the candidate, is above
\* MAX_GAS_PRICE_GWEI
OverMaxGasPrice(f) ==
    f.gasPrice # None /\ f.gasPrice[1] > config.maxGasPriceGwei * Gwei

\* the two quotes' gas estimates of a candidate
GasEstimates == GasEstimate + GasEstimate
\* the candidate's gas cost was estimated
Estimated(f) == f.lookup # "none" /\ ~f.threw

\* C28, as stated: the estimated gas cost is the two gas estimates times the
\* gas price times 1.2, the price being the live one, or the configured one
\* when the live lookup failed.
C28_AsStated ==
    \A k \in 1..Len(scanned) :
        LET f == scanned[k]
        IN  /\ (Estimated(f) /\ f.lookup = "price")
                  => f.gasCost = (GasEstimates * f.gasPrice[1] * 12) \div 10
            /\ (Estimated(f) /\ f.lookup = "threw")
                  => f.gasCost = (GasEstimates * (config.maxGasPriceGwei * Gwei) * 12) \div 10

\* C28, amended: with a live gas price the estimated gas cost is the two gas
\* estimates times that price times 1.2 (1 gwei standing for a price the
\* network does not report); when the lookup fails it is the two gas
\* estimates times the configured maximum price, with no multiplier.  The
\* candidate's net profit is its profit less that cost.
C28_EstimatedGasCost ==
    \A k \in 1..Len(scanned) :
        LET f == scanned[k]
        IN  /\ (Estimated(f) /\ f.lookup = "price")
                  => f.gasCost = (GasEstimates * f.gasPrice[1] * 12) \div 10
            /\ (Estimated(f) /\ f.lookup = "null")
                  => f.gasCost = (GasEstimates * Gwei * 12) \div 10
            /\ (Estimated(f) /\ f.lookup = "threw")
                  => f.gasCost = GasEstimates * (config.maxGasPriceGwei * Gwei)
            /\ Listed(f)
                  => \E i \in 1..Len(opportunities) :
                       /\ opportunities[i].estimatedGasCost = f.gasCost
                       /\ opportunities[i].netProfit
                            = (f.reverseOut - f.amountIn) - f.gasCost
C28_Witness ==
    \E k \in 1..Len(scanned) :
        /\ scanned[k].lookup = "threw"
        /\ Estimated(scanned[k])
        /\ scanned[k].gasCost = 30000

\* the candidate is in the list of opportunities of the cycle
Emitted(f) ==
    \E i \in 1..Len(opportunities) :
        /\ opportunities[i].buyDEX = f.buyDEX
        /\ opportunities[i].sellDEX = f.sellDEX
        /\ opportunities[i].buyQuote.inputAmount = f.amountIn

C22_GasPriceLimit ==
    \A k \in 1..Len(scanned) : OverMaxGasPrice(scanned[k]) => ~Listed(scanned[k])

----------------------------------------------------------------------------
(* Startup properties *)

\* a required variable was absent, or the native balance read was below the
\* minimum
StartupFailed ==
    \/ startup.missing # {}
    \/ startup.ethBalance # None /\ startup.ethBalance[1] < MinEthRequired
\* the configuration was loaded and both balance checks were passed
StartupPassed ==
    /\ startup.missing = {}
    /\ startup.ethBalance # None /\ startup.ethBalance[1] >= MinEthRequired
    /\ startup.wethBalance # None /\ startup.wethBalance[1] >= config.tradeAmount
    /\ startup.fatal = ""

\* C23: startup failures are fatal before scanning: with a required variable
\* absent or the native balance below the minimum the process has exited on a
\* fatal error and the scanning loop never ran; the scanner runs only after
\* the configuration was loaded and the balance checks were passed.
C23_StartupFailuresFatal ==
    /\ StartupFailed
          => /\ spc = "exited" /\ startup.fatal # ""
             /\ ~scanning /\ status = IDLE
             /\ scanned = <<>> /\ opportunities = <<>> /\ execStarted = 0
    /\ (scanning \/ spc \notin {"init", "exited"}) => StartupPassed
C23_Witness ==
    /\ spc = "exited"
    /\ startup.ethBalance = Some(999999)
    /\ startup.fatal = "Insufficient ETH balance for gas"
    /\ ~scanning

----------------------------------------------------------------------------
(* Square-root price properties, under SpecPool *)

\* amountIn times the price (token0 in) or divided by it, scaled by 10 to
\* decimalsOut - decimalsIn, as an integer
TrueOutput(req, sqrtPriceX96) ==
    LET d == Decimals(req.tokenOut) - Decimals(req.tokenIn)
        up == IF d >= 0 THEN 10 ^ d ELSE 1
        down == IF d < 0 THEN 10 ^ (-d) ELSE 1
    IN  IF token0IsInput(req.tokenIn, req.tokenOut)
        THEN ((req.amountIn * sqrtPriceX96 * sqrtPriceX96) \div (Q96 * Q96 * down)) * up
        ELSE ((req.amountIn * Q96 * Q96) \div (sqrtPriceX96 * sqrtPriceX96 * down)) * up

\* C30: the output derived from the square-root price is amountIn times the
\* price, or divided by it, by the address order of the two assets, scaled by
\* 10^(decimalsOut - decimalsIn) for every pair of precisions: a pool whose
\* true output is not zero yields a quote carrying it, in both directions.
C30_SqrtPriceOutput ==
    pm.sqrtPriceX96 # None =>
        LET out == TrueOutput(pm.req[1], pm.sqrtPriceX96[1])
        IN  /\ out # 0 => (pm.result # None /\ pm.result[1].outputAmount = out)
            /\ out = 0 => pm.result = None

\* the output derived for the request of the last call, 0n when there is no
\* quote
DerivedOutput == IF pm.result = None THEN 0 ELSE pm.result[1].outputAmount
\* the output derived for half of that input, at the same price and decimals
OutputOfHalf ==
    LET req == pm.req[1]
    IN  calculateOutputFromSqrtPrice(req.amountIn \div 2, pm.sqrtPriceX96[1],
                                     Decimals(req.tokenIn), Decimals(req.tokenOut),
                                     token0IsInput(req.tokenIn, req.tokenOut))
\* one unit of the integer quotient, as the decimal adjustment scales it
RoundingUnit ==
    LET d == Decimals(pm.req[1].tokenOut) - Decimals(pm.req[1].tokenIn)
    IN  IF d >= 0 THEN 10 ^ d ELSE 1

----------------------------------------------------------------------------
(* ZeroBot.handleOpportunity properties, under Spec *)

\* a handleOpportunity call is between its status assignment and its finally
HandlerRunning == ex.pc # "idle"
\* the process is alive
ProcessAlive == spc # "exited"
\* a handleOpportunity call ends
HandlerEnds == HandlerRunning /\ ~HandlerRunning' /\ ProcessAlive'
\* an opportunity is skipped by the busy check
OpportunitySkipped == dropped' # dropped

\* C36: the busy flag is never left stuck. While the process lives and no
\* handleOpportunity call is running the status is not EXECUTING; every call
\* that ends, with a successful or a failed result, leaves the status at
\* SCANNING; and an opportunity is skipped only while a call is running.
C36_BusyFlagReleased ==
    /\ []((ProcessAlive /\ ~HandlerRunning) => status # EXECUTING)
    /\ [][HandlerEnds => status' = SCANNING]_vars
    /\ [][OpportunitySkipped => HandlerRunning]_vars
C36_Witness ==
    /\ status = EXECUTING /\ HandlerRunning
    /\ execStarted = 2 /\ execReturned = 1
    /\ tradesExecuted = 0 /\ dropped = 0
    /\ ProcessAlive

====
